---------------------------- MODULE Spec2Model ----------------------------
(***************************************************************************)
(* The wire-format data model and the endpoint descriptor of paypal-rs:    *)
(* the structs and enums of src/data (with their serde, serde_with and     *)
(* derive_builder attributes), what the derived Serialize / Deserialize /  *)
(* Builder code does with them, and the AddOrderTracking descriptor of     *)
(* src/api/tracking.rs.                                                    *)
(*                                                                         *)
(* Text is modelled as a sequence of one-character strings, so that the    *)
(* renaming of enum variants and the formatting of a path are computed     *)
(* character by character.                                                 *)
(***************************************************************************)
EXTENDS Integers, Sequences, FiniteSets, TLC

VARIABLES
  \* ---- a derive_builder builder and the outcome of its last build()
  bty,        \* the struct the builder builds, or "" before any builder exists
  builder,    \* field name -> Unset or the value a setter stored
  lastSet,    \* history: field name -> Unset or the argument of the last setter call
  ncalls,     \* number of setter calls made on the builder
  built,      \* the Result of build(), when build() was the last call; else NoResult
  held,       \* a Result of build() the caller holds on to, with the setter
              \* history it was built from, or Nothing
  \* ---- a value, its JSON document, and the outcome of decoding a document
  cty,        \* the root type of the value / document, or ""
  val,        \* the in-memory value, or Nothing
  ctor,       \* history: the ::new call that made val, or Nothing
  nassign,    \* number of field assignments made to val
  wire,       \* the JSON document, or Nothing
  nedits,     \* number of edits made to the document after serialization
  decoded,    \* NoResult, or the Result of deserializing wire as cty
  \* ---- an AddOrderTracking endpoint descriptor
  endpoint,   \* Nothing, or [order_id, body]
  newArgs,    \* history: the arguments AddOrderTracking::new was called with
  ret         \* NoResult, or what the last accessor call returned

vars == << bty, builder, lastSet, ncalls, built, held,
           cty, val, ctor, nassign, wire, nedits, decoded,
           endpoint, newArgs, ret >>

builderVars == << bty, builder, lastSet, ncalls, built, held >>
codecVars == << cty, val, ctor, nassign, wire, nedits, decoded >>
endpointVars == << endpoint, newArgs, ret >>

-----------------------------------------------------------------------------
(* Bounds of the model.                                                    *)

MaxCalls == 3      \* setter calls on one builder
MaxAssign == 2     \* field assignments to one value
MaxEdits == 1      \* edits of one JSON document
MaxIdLen == 2      \* characters of an order id

-----------------------------------------------------------------------------
(* Characters.                                                             *)

LowerCase ==
  << "a","b","c","d","e","f","g","h","i","j","k","l","m",
     "n","o","p","q","r","s","t","u","v","w","x","y","z" >>

UpperCase ==
  << "A","B","C","D","E","F","G","H","I","J","K","L","M",
     "N","O","P","Q","R","S","T","U","V","W","X","Y","Z" >>

Digits == << "0","1","2","3","4","5","6","7","8","9" >>

Range(s) == { s[i] : i \in DOMAIN s }

\* char::is_uppercase, on the ASCII identifiers of the source
IsUppercase(c) == c \in Range(UpperCase)

IsLowercase(c) == c \in Range(LowerCase)

\* char::to_ascii_lowercase
ToAsciiLowercase(c) ==
  IF IsUppercase(c) THEN LowerCase[CHOOSE i \in DOMAIN UpperCase : UpperCase[i] = c] ELSE c

\* char::to_ascii_uppercase
ToAsciiUppercase(c) ==
  IF IsLowercase(c) THEN UpperCase[CHOOSE i \in DOMAIN LowerCase : LowerCase[i] = c] ELSE c

\* str::to_ascii_lowercase / str::to_ascii_uppercase
StrToAsciiLowercase(s) == [ i \in 1..Len(s) |-> ToAsciiLowercase(s[i]) ]

StrToAsciiUppercase(s) == [ i \in 1..Len(s) |-> ToAsciiUppercase(s[i]) ]

RECURSIVE Concat(_)
\* the concatenation of a sequence of texts
Concat(ss) == IF ss = << >> THEN << >> ELSE Head(ss) \o Concat(Tail(ss))

-----------------------------------------------------------------------------
(* In-memory values.  A field of type Option<T> holds None or a value of   *)
(* T (Some is implicit); every other field holds a value of its type.      *)

Nothing == [ t |-> "Nothing" ]        \* no value yet (not a Rust value)
NoResult == [ t |-> "NoResult" ]      \* no call made yet (not a Rust value)
Unset == [ t |-> "Unset" ]            \* a builder field no setter has stored to

None == [ t |-> "None" ]                               \* Option::None
Str(s) == [ t |-> "String", s |-> s ]                  \* String
Bool(b) == [ t |-> "bool", b |-> b ]                   \* bool
I32(n) == [ t |-> "i32", n |-> n ]                     \* i32
Time(s) == [ t |-> "DateTime", utc |-> s ]             \* chrono::DateTime<Utc>
Date(s) == [ t |-> "NaiveDate", ymd |-> s ]            \* chrono::NaiveDate
Json(j) == [ t |-> "Value", json |-> j ]               \* serde_json::Value
Variant(e, v) == [ t |-> "Enum", enum |-> e, variant |-> v ]
VecOf(items) == [ t |-> "Vec", items |-> items ]       \* Vec<T>
StructOf(ty, fs) == [ t |-> "Struct", ty |-> ty, fields |-> fs ]
Extern(k, id) == [ t |-> "Extern", kind |-> k, id |-> id ]

Ok(v) == [ ok |-> TRUE, v |-> v ]                      \* Result::Ok
Err(kind, at) == [ ok |-> FALSE, err |-> kind, at |-> at ]   \* Result::Err

-----------------------------------------------------------------------------
(* JSON documents (serde_json::Value on the wire).                         *)

JNull == [ j |-> "null" ]
JString(s) == [ j |-> "string", str |-> s ]
JBool(b) == [ j |-> "bool", bit |-> b ]
JNumber(n) == [ j |-> "number", num |-> n ]
JArray(elems) == [ j |-> "array", elems |-> elems ]
JObject(members) == [ j |-> "object", members |-> members ]   \* key -> JSON
\* a well-formed encoding of value id of a type declared outside these files
JExtern(k, id) == [ j |-> "extern", of |-> k, eid |-> id ]

Keys(doc) == DOMAIN doc.members

-----------------------------------------------------------------------------
(* Type declarations: one definition per enum and struct of the source.    *)

\* one field of a struct: its Rust name, its JSON key (serde(rename) or the
\* name), the type inside Option<> / Vec<> / Box<>, and its attributes
Field(name, key, kind, flags) ==
  [ name |-> name, key |-> key, kind |-> kind,
    option |-> "Option" \in flags, vec |-> "Vec" \in flags,
    builder_default |-> "builder(default)" \in flags,
    serde_default |-> "serde(default)" \in flags ]

\* src/src/data/orders.rs:9-21  enum Intent { Capture, Authorize }
Intent ==
  [ name |-> "Intent", rename_all |-> "SCREAMING_SNAKE_CASE",
    has_default |-> TRUE, default |-> <<"C","a","p","t","u","r","e">>,
    variants |-> <<
      <<"C","a","p","t","u","r","e">>,
      <<"A","u","t","h","o","r","i","z","e">>
    >> ]

\* src/src/data/orders.rs:26-33  struct PayerName
PayerName ==
  [ name |-> "PayerName", skip_serializing_none |-> FALSE,
    derive_serde |-> TRUE, derive_default |-> FALSE,
    derive_builder |-> TRUE, strip_option |-> FALSE,
    builder_default |-> FALSE,
    fields |-> <<
      Field("given_name", "given_name", "String", {}),
      Field("surname", "surname", "String", {})
    >> ]

\* src/src/data/orders.rs:36-47  struct PhoneNumber
PhoneNumber ==
  [ name |-> "PhoneNumber", skip_serializing_none |-> FALSE,
    derive_serde |-> TRUE, derive_default |-> FALSE,
    derive_builder |-> TRUE, strip_option |-> TRUE,
    builder_default |-> FALSE,
    fields |-> <<
      Field("country_code", "country_code", "String", {"Option"}),
      Field("national_number", "national_number", "String", {})
    >> ]

\* src/src/data/orders.rs:51-59  struct Phone
Phone ==
  [ name |-> "Phone", skip_serializing_none |-> TRUE,
    derive_serde |-> TRUE, derive_default |-> FALSE,
    derive_builder |-> TRUE, strip_option |-> TRUE,
    builder_default |-> FALSE,
    fields |-> <<
      Field("phone_type", "phone_type", "PhoneType", {"Option"}),
      Field("phone_number", "phone_number", "PhoneNumber", {})
    >> ]

\* src/src/data/orders.rs:62-70  enum TaxIdType { BR_CPF, BR_CNPJ }
TaxIdType ==
  [ name |-> "TaxIdType", rename_all |-> "SCREAMING_SNAKE_CASE",
    has_default |-> FALSE, default |-> <<>>,
    variants |-> <<
      <<"B","R","_","C","P","F">>,
      <<"B","R","_","C","N","P","J">>
    >> ]

\* src/src/data/orders.rs:73-81  struct TaxInfo
TaxInfo ==
  [ name |-> "TaxInfo", skip_serializing_none |-> FALSE,
    derive_serde |-> TRUE, derive_default |-> FALSE,
    derive_builder |-> TRUE, strip_option |-> TRUE,
    builder_default |-> FALSE,
    fields |-> <<
      Field("tax_id", "tax_id", "String", {}),
      Field("tax_id_type", "tax_id_type", "TaxIdType", {})
    >> ]

\* src/src/data/orders.rs:86-105  struct Payer
Payer ==
  [ name |-> "Payer", skip_serializing_none |-> TRUE,
    derive_serde |-> TRUE, derive_default |-> TRUE,
    derive_builder |-> TRUE, strip_option |-> TRUE,
    builder_default |-> TRUE,
    fields |-> <<
      Field("name", "name", "PayerName", {"Option"}),
      Field("email_address", "email_address", "String", {"Option"}),
      Field("payer_id", "payer_id", "String", {"Option"}),
      Field("phone", "phone", "Phone", {"Option"}),
      Field("birth_date", "birth_date", "String", {"Option"}),
      Field("tax_info", "tax_info", "TaxInfo", {"Option"}),
      Field("address", "address", "Address", {"Option"})
    >> ]

\* src/src/data/orders.rs:108-127  struct Breakdown
OrdersBreakdown ==
  [ name |-> "OrdersBreakdown", skip_serializing_none |-> TRUE,
    derive_serde |-> TRUE, derive_default |-> TRUE,
    derive_builder |-> TRUE, strip_option |-> TRUE,
    builder_default |-> FALSE,
    fields |-> <<
      Field("item_total", "item_total", "Money", {"Option"}),
      Field("shipping", "shipping", "Money", {"Option"}),
      Field("handling", "handling", "Money", {"Option"}),
      Field("tax_total", "tax_total", "Money", {"Option"}),
      Field("insurance", "insurance", "Money", {"Option"}),
      Field("shipping_discount", "shipping_discount", "Money", {"Option"}),
      Field("discount", "discount", "Money", {"Option"})
    >> ]

\* src/src/data/orders.rs:130-144  struct Amount
OrdersAmount ==
  [ name |-> "OrdersAmount", skip_serializing_none |-> TRUE,
    derive_serde |-> TRUE, derive_default |-> TRUE,
    derive_builder |-> TRUE, strip_option |-> TRUE,
    builder_default |-> FALSE,
    fields |-> <<
      Field("currency_code", "currency_code", "Currency", {}),
      Field("value", "value", "String", {}),
      Field("breakdown", "breakdown", "OrdersBreakdown", {"Option"})
    >> ]

\* src/src/data/orders.rs:176-184  struct Payee
Payee ==
  [ name |-> "Payee", skip_serializing_none |-> TRUE,
    derive_serde |-> TRUE, derive_default |-> TRUE,
    derive_builder |-> TRUE, strip_option |-> TRUE,
    builder_default |-> FALSE,
    fields |-> <<
      Field("email_address", "email_address", "String", {"Option"}),
      Field("merchant_id", "merchant_id", "String", {"Option"})
    >> ]

\* src/src/data/orders.rs:187-196  struct PlatformFee
PlatformFee ==
  [ name |-> "PlatformFee", skip_serializing_none |-> TRUE,
    derive_serde |-> TRUE, derive_default |-> FALSE,
    derive_builder |-> TRUE, strip_option |-> TRUE,
    builder_default |-> FALSE,
    fields |-> <<
      Field("amount", "amount", "Money", {}),
      Field("payee", "payee", "Payee", {"Option"})
    >> ]

\* src/src/data/orders.rs:199-208  enum DisbursementMode { Instant, Delayed }
DisbursementMode ==
  [ name |-> "DisbursementMode", rename_all |-> "None",
    has_default |-> TRUE, default |-> <<"I","n","s","t","a","n","t">>,
    variants |-> <<
      <<"I","n","s","t","a","n","t">>,
      <<"D","e","l","a","y","e","d">>
    >> ]

\* src/src/data/orders.rs:210-223  struct PaymentInstruction
PaymentInstruction ==
  [ name |-> "PaymentInstruction", skip_serializing_none |-> TRUE,
    derive_serde |-> TRUE, derive_default |-> TRUE,
    derive_builder |-> TRUE, strip_option |-> TRUE,
    builder_default |-> FALSE,
    fields |-> <<
      Field("platform_fees", "platform_fees", "PlatformFee", {"Option", "Vec"}),
      Field("payee_pricing_tier_id", "payee_pricing_tier_id", "String", {"Option"}),
      Field("payee_receivable_fx_rate_id", "payee_receivable_fx_rate_id", "String", {"Option"}),
      Field("disbursement_mode", "disbursement_mode", "DisbursementMode", {"Option"})
    >> ]

\* src/src/data/orders.rs:226-239  enum ItemCategoryType { DigitalGoods, PhysicalGoods, Donation }
ItemCategoryType ==
  [ name |-> "ItemCategoryType", rename_all |-> "SCREAMING_SNAKE_CASE",
    has_default |-> TRUE, default |-> <<"D","i","g","i","t","a","l","G","o","o","d","s">>,
    variants |-> <<
      <<"D","i","g","i","t","a","l","G","o","o","d","s">>,
      <<"P","h","y","s","i","c","a","l","G","o","o","d","s">>,
      <<"D","o","n","a","t","i","o","n">>
    >> ]

\* src/src/data/orders.rs:241-246  struct ShippingDetailName
ShippingDetailName ==
  [ name |-> "ShippingDetailName", skip_serializing_none |-> TRUE,
    derive_serde |-> TRUE, derive_default |-> TRUE,
    derive_builder |-> FALSE, strip_option |-> FALSE,
    builder_default |-> FALSE,
    fields |-> <<
      Field("full_name", "full_name", "String", {})
    >> ]

\* src/src/data/orders.rs:249-264  enum ShippingType { Shipping, PickupInPerson, PickupInStore, PickupFromPerson }
ShippingType ==
  [ name |-> "ShippingType", rename_all |-> "SCREAMING_SNAKE_CASE",
    has_default |-> FALSE, default |-> <<>>,
    variants |-> <<
      <<"S","h","i","p","p","i","n","g">>,
      <<"P","i","c","k","u","p","I","n","P","e","r","s","o","n">>,
      <<"P","i","c","k","u","p","I","n","S","t","o","r","e">>,
      <<"P","i","c","k","u","p","F","r","o","m","P","e","r","s","o","n">>
    >> ]

\* src/src/data/orders.rs:267-276  enum TrackerStatus { Cancelled, Shipped }
TrackerStatus ==
  [ name |-> "TrackerStatus", rename_all |-> "SCREAMING_SNAKE_CASE",
    has_default |-> FALSE, default |-> <<>>,
    variants |-> <<
      <<"C","a","n","c","e","l","l","e","d">>,
      <<"S","h","i","p","p","e","d">>
    >> ]

\* src/src/data/orders.rs:278-295  struct ShipmentItem
OrdersShipmentItem ==
  [ name |-> "OrdersShipmentItem", skip_serializing_none |-> TRUE,
    derive_serde |-> TRUE, derive_default |-> TRUE,
    derive_builder |-> TRUE, strip_option |-> FALSE,
    builder_default |-> FALSE,
    fields |-> <<
      Field("name", "name", "String", {"Option"}),
      Field("quantity", "quantity", "String", {"Option"}),
      Field("sku", "sku", "String", {"Option"}),
      Field("url", "url", "String", {"Option"}),
      Field("image_url", "image_url", "String", {"Option"}),
      Field("upc", "upc", "ItemUpc", {"Option"})
    >> ]

\* src/src/data/orders.rs:298-313  struct TransactionTracker
TransactionTracker ==
  [ name |-> "TransactionTracker", skip_serializing_none |-> TRUE,
    derive_serde |-> TRUE, derive_default |-> TRUE,
    derive_builder |-> TRUE, strip_option |-> FALSE,
    builder_default |-> FALSE,
    fields |-> <<
      Field("id", "id", "String", {"Option"}),
      Field("status", "status", "TrackerStatus", {"Option"}),
      Field("items", "items", "OrdersShipmentItem", {"Option", "Vec"}),
      Field("links", "links", "LinkDescription", {"Option", "Vec"}),
      Field("create_time", "create_time", "DateTime", {"Option"}),
      Field("update_time", "update_time", "DateTime", {"Option"})
    >> ]

\* src/src/data/orders.rs:316-336  struct ShippingOption
ShippingOption ==
  [ name |-> "ShippingOption", skip_serializing_none |-> TRUE,
    derive_serde |-> TRUE, derive_default |-> TRUE,
    derive_builder |-> TRUE, strip_option |-> FALSE,
    builder_default |-> FALSE,
    fields |-> <<
      Field("id", "id", "String", {}),
      Field("label", "label", "String", {}),
      Field("selected", "selected", "bool", {}),
      Field("shipping_type", "shipping_type", "ShippingType", {"Option"}),
      Field("amount", "amount", "Money", {"Option"})
    >> ]

\* (deliberately wrong variant) shipping_type without its serde(rename)
ShippingDetailUnrenamed ==
  [ name |-> "ShippingDetail", skip_serializing_none |-> TRUE,
    derive_serde |-> TRUE, derive_default |-> TRUE,
    derive_builder |-> TRUE, strip_option |-> TRUE,
    builder_default |-> FALSE,
    fields |-> <<
      Field("shipping_type", "shipping_type", "ShippingType", {"Option"}),
      Field("options", "options", "ShippingOption", {"Option", "Vec"}),
      Field("name", "name", "ShippingDetailName", {"Option"}),
      Field("phone_number", "phone_number", "PhoneNumber", {"Option"}),
      Field("address", "address", "Address", {"Option"}),
      Field("trackers", "trackers", "TransactionTracker", {"Option", "Vec"})
    >> ]

\* src/src/data/orders.rs:339-358  struct ShippingDetail
ShippingDetail ==
  [ name |-> "ShippingDetail", skip_serializing_none |-> TRUE,
    derive_serde |-> TRUE, derive_default |-> TRUE,
    derive_builder |-> TRUE, strip_option |-> TRUE,
    builder_default |-> FALSE,
    fields |-> <<
      Field("shipping_type", "type", "ShippingType", {"Option"}),
      Field("options", "options", "ShippingOption", {"Option", "Vec"}),
      Field("name", "name", "ShippingDetailName", {"Option"}),
      Field("phone_number", "phone_number", "PhoneNumber", {"Option"}),
      Field("address", "address", "Address", {"Option"}),
      Field("trackers", "trackers", "TransactionTracker", {"Option", "Vec"})
    >> ]

\* src/src/data/orders.rs:361-386  struct Item
OrdersItem ==
  [ name |-> "OrdersItem", skip_serializing_none |-> TRUE,
    derive_serde |-> TRUE, derive_default |-> TRUE,
    derive_builder |-> TRUE, strip_option |-> TRUE,
    builder_default |-> FALSE,
    fields |-> <<
      Field("name", "name", "String", {}),
      Field("quantity", "quantity", "String", {}),
      Field("description", "description", "String", {"Option"}),
      Field("sku", "sku", "String", {"Option"}),
      Field("url", "url", "String", {"Option"}),
      Field("category", "category", "ItemCategoryType", {"Option"}),
      Field("image_url", "image_url", "String", {"Option"}),
      Field("unit_amount", "unit_amount", "Money", {}),
      Field("tax", "tax", "Money", {"Option"}),
      Field("upc", "upc", "ItemUpc", {"Option"})
    >> ]

\* src/src/data/orders.rs:389-408  enum AuthorizationStatus { Created, Captured, Denied, Expired, PartiallyExpired, PartiallyCaptured, Voided, Pending }
AuthorizationStatus ==
  [ name |-> "AuthorizationStatus", rename_all |-> "SCREAMING_SNAKE_CASE",
    has_default |-> FALSE, default |-> <<>>,
    variants |-> <<
      <<"C","r","e","a","t","e","d">>,
      <<"C","a","p","t","u","r","e","d">>,
      <<"D","e","n","i","e","d">>,
      <<"E","x","p","i","r","e","d">>,
      <<"P","a","r","t","i","a","l","l","y","E","x","p","i","r","e","d">>,
      <<"P","a","r","t","i","a","l","l","y","C","a","p","t","u","r","e","d">>,
      <<"V","o","i","d","e","d">>,
      <<"P","e","n","d","i","n","g">>
    >> ]

\* src/src/data/orders.rs:411-421  enum SellerProtectionStatus { Eligible, PartiallyEligible, NotEligible }
SellerProtectionStatus ==
  [ name |-> "SellerProtectionStatus", rename_all |-> "SCREAMING_SNAKE_CASE",
    has_default |-> FALSE, default |-> <<>>,
    variants |-> <<
      <<"E","l","i","g","i","b","l","e">>,
      <<"P","a","r","t","i","a","l","l","y","E","l","i","g","i","b","l","e">>,
      <<"N","o","t","E","l","i","g","i","b","l","e">>
    >> ]

\* src/src/data/orders.rs:424-431  struct SellerProtection
SellerProtection ==
  [ name |-> "SellerProtection", skip_serializing_none |-> FALSE,
    derive_serde |-> TRUE, derive_default |-> FALSE,
    derive_builder |-> FALSE, strip_option |-> FALSE,
    builder_default |-> FALSE,
    fields |-> <<
      Field("status", "status", "SellerProtectionStatus", {"Option"}),
      Field("dispute_categories", "dispute_categories", "String", {"Option", "Vec"})
    >> ]

\* src/src/data/orders.rs:434-450  struct NetworkTransactionReference
NetworkTransactionReference ==
  [ name |-> "NetworkTransactionReference", skip_serializing_none |-> FALSE,
    derive_serde |-> TRUE, derive_default |-> FALSE,
    derive_builder |-> FALSE, strip_option |-> FALSE,
    builder_default |-> FALSE,
    fields |-> <<
      Field("id", "id", "String", {}),
      Field("date", "date", "String", {"Option"}),
      Field("acquirer_reference_number", "acquirer_reference_number", "String", {"Option"}),
      Field("network", "network", "String", {"Option"})
    >> ]

\* (deliberately wrong variant) status_details declared as an Option
AuthorizationWithDataOptionalDetails ==
  [ name |-> "AuthorizationWithData", skip_serializing_none |-> FALSE,
    derive_serde |-> TRUE, derive_default |-> FALSE,
    derive_builder |-> FALSE, strip_option |-> FALSE,
    builder_default |-> FALSE,
    fields |-> <<
      Field("status", "status", "AuthorizationStatus", {}),
      Field("status_details", "status_details", "AuthorizationStatusDetails", {"Option"}),
      Field("id", "id", "String", {"Option"}),
      Field("invoice_id", "invoice_id", "String", {"Option"}),
      Field("custom_id", "custom_id", "String", {"Option"}),
      Field("links", "links", "LinkDescription", {"Option", "Vec"}),
      Field("amount", "amount", "Money", {"Option"}),
      Field("seller_protection", "seller_protection", "SellerProtection", {"Option"}),
      Field("expiration_time", "expiration_time", "DateTime", {"Option"}),
      Field("create_time", "create_time", "DateTime", {"Option"}),
      Field("update_time", "update_time", "DateTime", {"Option"}),
      Field("processor_response", "processor_response", "Value", {"Option"})
    >> ]

\* src/src/data/orders.rs:453-482  struct AuthorizationWithData
AuthorizationWithData ==
  [ name |-> "AuthorizationWithData", skip_serializing_none |-> FALSE,
    derive_serde |-> TRUE, derive_default |-> FALSE,
    derive_builder |-> FALSE, strip_option |-> FALSE,
    builder_default |-> FALSE,
    fields |-> <<
      Field("status", "status", "AuthorizationStatus", {}),
      Field("status_details", "status_details", "AuthorizationStatusDetails", {}),
      Field("id", "id", "String", {"Option"}),
      Field("invoice_id", "invoice_id", "String", {"Option"}),
      Field("custom_id", "custom_id", "String", {"Option"}),
      Field("links", "links", "LinkDescription", {"Option", "Vec"}),
      Field("amount", "amount", "Money", {"Option"}),
      Field("seller_protection", "seller_protection", "SellerProtection", {"Option"}),
      Field("expiration_time", "expiration_time", "DateTime", {"Option"}),
      Field("create_time", "create_time", "DateTime", {"Option"}),
      Field("update_time", "update_time", "DateTime", {"Option"}),
      Field("processor_response", "processor_response", "Value", {"Option"})
    >> ]

\* src/src/data/orders.rs:485-498  enum CaptureStatus { Completed, Declined, PartiallyRefunded, Pending, Refunded }
CaptureStatus ==
  [ name |-> "CaptureStatus", rename_all |-> "SCREAMING_SNAKE_CASE",
    has_default |-> FALSE, default |-> <<>>,
    variants |-> <<
      <<"C","o","m","p","l","e","t","e","d">>,
      <<"D","e","c","l","i","n","e","d">>,
      <<"P","a","r","t","i","a","l","l","y","R","e","f","u","n","d","e","d">>,
      <<"P","e","n","d","i","n","g">>,
      <<"R","e","f","u","n","d","e","d">>
    >> ]

\* src/src/data/orders.rs:501-530  enum CaptureStatusDetailsReason { BuyerComplaint, Chargeback, Echeck, InternationalWithdrawal, Other, PendingReview, ReceivingPreferenceMandatesManualAction, Refunded, TransactionApprovedAwaitingFunding, Unilateral, VerificationRequired }
CaptureStatusDetailsReason ==
  [ name |-> "CaptureStatusDetailsReason", rename_all |-> "SCREAMING_SNAKE_CASE",
    has_default |-> FALSE, default |-> <<>>,
    variants |-> <<
      <<"B","u","y","e","r","C","o","m","p","l","a","i","n","t">>,
      <<"C","h","a","r","g","e","b","a","c","k">>,
      <<"E","c","h","e","c","k">>,
      <<"I","n","t","e","r","n","a","t","i","o","n","a","l","W","i","t","h","d","r","a","w","a","l">>,
      <<"O","t","h","e","r">>,
      <<"P","e","n","d","i","n","g","R","e","v","i","e","w">>,
      <<"R","e","c","e","i","v","i","n","g","P","r","e","f","e","r","e","n","c","e","M","a","n","d","a","t","e","s","M","a","n","u","a","l","A","c","t","i","o","n">>,
      <<"R","e","f","u","n","d","e","d">>,
      <<"T","r","a","n","s","a","c","t","i","o","n","A","p","p","r","o","v","e","d","A","w","a","i","t","i","n","g","F","u","n","d","i","n","g">>,
      <<"U","n","i","l","a","t","e","r","a","l">>,
      <<"V","e","r","i","f","i","c","a","t","i","o","n","R","e","q","u","i","r","e","d">>
    >> ]

\* src/src/data/orders.rs:533-537  struct CaptureStatusDetails
CaptureStatusDetails ==
  [ name |-> "CaptureStatusDetails", skip_serializing_none |-> FALSE,
    derive_serde |-> TRUE, derive_default |-> FALSE,
    derive_builder |-> FALSE, strip_option |-> FALSE,
    builder_default |-> FALSE,
    fields |-> <<
      Field("reason", "reason", "CaptureStatusDetailsReason", {})
    >> ]

\* src/src/data/orders.rs:540-549  struct ExchangeRateDetail
ExchangeRateDetail ==
  [ name |-> "ExchangeRateDetail", skip_serializing_none |-> FALSE,
    derive_serde |-> TRUE, derive_default |-> FALSE,
    derive_builder |-> FALSE, strip_option |-> FALSE,
    builder_default |-> FALSE,
    fields |-> <<
      Field("value", "value", "String", {}),
      Field("source_currency", "source_currency", "String", {"Option"}),
      Field("target_currency", "target_currency", "String", {"Option"})
    >> ]

\* src/src/data/orders.rs:552-573  struct SellerReceivableBreakdown
SellerReceivableBreakdown ==
  [ name |-> "SellerReceivableBreakdown", skip_serializing_none |-> FALSE,
    derive_serde |-> TRUE, derive_default |-> FALSE,
    derive_builder |-> FALSE, strip_option |-> FALSE,
    builder_default |-> FALSE,
    fields |-> <<
      Field("platform_fees", "platform_fees", "PlatformFee", {"Option", "Vec"}),
      Field("gross_amount", "gross_amount", "Money", {}),
      Field("paypal_fee", "paypal_fee", "Money", {}),
      Field("paypal_fee_in_receivable_currency", "paypal_fee_in_receivable_currency", "Money", {"Option"}),
      Field("net_amount", "net_amount", "Money", {"Option"}),
      Field("receivable_amount", "receivable_amount", "Money", {"Option"}),
      Field("exchange_rate", "exchange_rate", "ExchangeRateDetail", {"Option"})
    >> ]

\* src/src/data/orders.rs:576-615  struct Capture
Capture ==
  [ name |-> "Capture", skip_serializing_none |-> TRUE,
    derive_serde |-> TRUE, derive_default |-> FALSE,
    derive_builder |-> TRUE, strip_option |-> TRUE,
    builder_default |-> FALSE,
    fields |-> <<
      Field("create_time", "create_time", "DateTime", {"Option"}),
      Field("update_time", "update_time", "DateTime", {"Option"}),
      Field("id", "id", "String", {"Option"}),
      Field("invoice_id", "invoice_id", "String", {"Option"}),
      Field("custom_id", "custom_id", "String", {"Option"}),
      Field("final_capture", "final_capture", "bool", {"Option"}),
      Field("links", "links", "LinkDescription", {"Option", "Vec"}),
      Field("amount", "amount", "Money", {}),
      Field("network_transaction_reference", "network_transaction_reference", "NetworkTransactionReference", {"Option"}),
      Field("seller_protection", "seller_protection", "SellerProtection", {"Option"}),
      Field("status", "status", "CaptureStatus", {}),
      Field("status_details", "status_details", "CaptureStatusDetails", {"Option"}),
      Field("seller_receivable_breakdown", "seller_receivable_breakdown", "SellerReceivableBreakdown", {"Option"}),
      Field("disbursement_mode", "disbursement_mode", "DisbursementMode", {"Option"}),
      Field("processor_response", "processor_response", "Value", {"Option"})
    >> ]

\* src/src/data/orders.rs:618-629  enum RefundStatus { Cancelled, Pending, Completed, Failed }
RefundStatus ==
  [ name |-> "RefundStatus", rename_all |-> "SCREAMING_SNAKE_CASE",
    has_default |-> FALSE, default |-> <<>>,
    variants |-> <<
      <<"C","a","n","c","e","l","l","e","d">>,
      <<"P","e","n","d","i","n","g">>,
      <<"C","o","m","p","l","e","t","e","d">>,
      <<"F","a","i","l","e","d">>
    >> ]

\* src/src/data/orders.rs:632-637  enum RefundStatusDetailsReason { Echeck }
RefundStatusDetailsReason ==
  [ name |-> "RefundStatusDetailsReason", rename_all |-> "SCREAMING_SNAKE_CASE",
    has_default |-> FALSE, default |-> <<>>,
    variants |-> <<
      <<"E","c","h","e","c","k">>
    >> ]

\* src/src/data/orders.rs:640-644  struct RefundStatusDetails
RefundStatusDetails ==
  [ name |-> "RefundStatusDetails", skip_serializing_none |-> FALSE,
    derive_serde |-> TRUE, derive_default |-> FALSE,
    derive_builder |-> FALSE, strip_option |-> FALSE,
    builder_default |-> FALSE,
    fields |-> <<
      Field("reason", "reason", "RefundStatusDetailsReason", {})
    >> ]

\* src/src/data/orders.rs:647-655  struct ExchangeRate
ExchangeRate ==
  [ name |-> "ExchangeRate", skip_serializing_none |-> FALSE,
    derive_serde |-> TRUE, derive_default |-> FALSE,
    derive_builder |-> TRUE, strip_option |-> FALSE,
    builder_default |-> FALSE,
    fields |-> <<
      Field("source_currency", "source_currency", "Currency", {}),
      Field("target_currency", "target_currency", "Currency", {}),
      Field("value", "value", "String", {})
    >> ]

\* src/src/data/orders.rs:658-666  struct NetAmountBreakdown
NetAmountBreakdown ==
  [ name |-> "NetAmountBreakdown", skip_serializing_none |-> FALSE,
    derive_serde |-> TRUE, derive_default |-> FALSE,
    derive_builder |-> TRUE, strip_option |-> FALSE,
    builder_default |-> FALSE,
    fields |-> <<
      Field("converted_amount", "converted_amount", "Money", {}),
      Field("exchange_rate", "exchange_rate", "ExchangeRate", {}),
      Field("payable_amount", "payable_amount", "Money", {})
    >> ]

\* src/src/data/orders.rs:669-688  struct SellerPayableBreakdown
SellerPayableBreakdown ==
  [ name |-> "SellerPayableBreakdown", skip_serializing_none |-> FALSE,
    derive_serde |-> TRUE, derive_default |-> FALSE,
    derive_builder |-> TRUE, strip_option |-> TRUE,
    builder_default |-> FALSE,
    fields |-> <<
      Field("platform_fees", "platform_fees", "PlatformFee", {"Option", "Vec"}),
      Field("net_amount_breakdown", "net_amount_breakdown", "NetAmountBreakdown", {"Option", "Vec"}),
      Field("gross_amount", "gross_amount", "Money", {"Option"}),
      Field("paypal_fee", "paypal_fee", "Money", {"Option"}),
      Field("paypal_fee_in_receivable_currency", "paypal_fee_in_receivable_currency", "Money", {"Option"}),
      Field("net_amount", "net_amount", "Money", {"Option"}),
      Field("net_amount_in_receivable_currency", "net_amount_in_receivable_currency", "Money", {"Option"}),
      Field("total_refunded_amount", "total_refunded_amount", "Money", {})
    >> ]

\* src/src/data/orders.rs:691-721  struct Refund
Refund ==
  [ name |-> "Refund", skip_serializing_none |-> FALSE,
    derive_serde |-> TRUE, derive_default |-> FALSE,
    derive_builder |-> TRUE, strip_option |-> TRUE,
    builder_default |-> FALSE,
    fields |-> <<
      Field("status", "status", "RefundStatus", {}),
      Field("status_details", "status_details", "RefundStatusDetails", {"Option"}),
      Field("id", "id", "String", {}),
      Field("invoice_id", "invoice_id", "String", {"Option"}),
      Field("customer_id", "customer_id", "String", {"Option"}),
      Field("acquirer_reference_number", "acquirer_reference_number", "String", {"Option"}),
      Field("note_to_payer", "note_to_payer", "String", {"Option"}),
      Field("seller_payable_breakdown", "seller_payable_breakdown", "SellerPayableBreakdown", {}),
      Field("links", "links", "LinkDescription", {"Vec"}),
      Field("amount", "amount", "Money", {}),
      Field("payer", "payer", "Payer", {"Option"}),
      Field("create_time", "create_time", "DateTime", {"Option"}),
      Field("update_time", "update_time", "DateTime", {"Option"})
    >> ]

\* src/src/data/orders.rs:724-736  struct PaymentCollection
PaymentCollection ==
  [ name |-> "PaymentCollection", skip_serializing_none |-> FALSE,
    derive_serde |-> TRUE, derive_default |-> FALSE,
    derive_builder |-> TRUE, strip_option |-> TRUE,
    builder_default |-> FALSE,
    fields |-> <<
      Field("authorizations", "authorizations", "AuthorizationWithData", {"Vec", "serde(default)"}),
      Field("captures", "captures", "Capture", {"Vec", "serde(default)"}),
      Field("refunds", "refunds", "Refund", {"Vec", "serde(default)"})
    >> ]

\* src/src/data/orders.rs:738-743  struct SupplementaryCustomer
SupplementaryCustomer ==
  [ name |-> "SupplementaryCustomer", skip_serializing_none |-> TRUE,
    derive_serde |-> TRUE, derive_default |-> TRUE,
    derive_builder |-> TRUE, strip_option |-> FALSE,
    builder_default |-> FALSE,
    fields |-> <<
      Field("ip_address", "ip_address", "String", {"Option"})
    >> ]

\* src/src/data/orders.rs:746-751  struct SupplementaryRisk
SupplementaryRisk ==
  [ name |-> "SupplementaryRisk", skip_serializing_none |-> TRUE,
    derive_serde |-> TRUE, derive_default |-> TRUE,
    derive_builder |-> TRUE, strip_option |-> FALSE,
    builder_default |-> FALSE,
    fields |-> <<
      Field("customer", "customer", "SupplementaryCustomer", {"Option"})
    >> ]

\* src/src/data/orders.rs:754-770  struct SupplementaryData
SupplementaryData ==
  [ name |-> "SupplementaryData", skip_serializing_none |-> TRUE,
    derive_serde |-> TRUE, derive_default |-> TRUE,
    derive_builder |-> TRUE, strip_option |-> FALSE,
    builder_default |-> FALSE,
    fields |-> <<
      Field("level_2", "level_2", "Value", {"Option"}),
      Field("level_3", "level_3", "Value", {"Option"}),
      Field("risk", "risk", "SupplementaryRisk", {"Option"})
    >> ]

\* src/src/data/orders.rs:773-817  struct PurchaseUnit
PurchaseUnit ==
  [ name |-> "PurchaseUnit", skip_serializing_none |-> TRUE,
    derive_serde |-> TRUE, derive_default |-> TRUE,
    derive_builder |-> TRUE, strip_option |-> TRUE,
    builder_default |-> TRUE,
    fields |-> <<
      Field("reference_id", "reference_id", "String", {"Option"}),
      Field("description", "description", "String", {"Option"}),
      Field("custom_id", "custom_id", "String", {"Option"}),
      Field("invoice_id", "invoice_id", "String", {"Option"}),
      Field("id", "id", "String", {"Option"}),
      Field("soft_descriptor", "soft_descriptor", "String", {"Option"}),
      Field("items", "items", "OrdersItem", {"Option", "Vec"}),
      Field("amount", "amount", "OrdersAmount", {}),
      Field("payee", "payee", "Payee", {"Option"}),
      Field("payment_instruction", "payment_instruction", "PaymentInstruction", {"Option"}),
      Field("shipping", "shipping", "ShippingDetail", {"Option"}),
      Field("payments", "payments", "PaymentCollection", {"Option"})
    >> ]

\* src/src/data/orders.rs:830-843  enum LandingPage { Login, Billing, NoPreference }
LandingPage ==
  [ name |-> "LandingPage", rename_all |-> "SCREAMING_SNAKE_CASE",
    has_default |-> TRUE, default |-> <<"N","o","P","r","e","f","e","r","e","n","c","e">>,
    variants |-> <<
      <<"L","o","g","i","n">>,
      <<"B","i","l","l","i","n","g">>,
      <<"N","o","P","r","e","f","e","r","e","n","c","e">>
    >> ]

\* src/src/data/orders.rs:846-856  enum ShippingPreference { GetFromFile, NoShipping, SetProvidedAddress }
ShippingPreference ==
  [ name |-> "ShippingPreference", rename_all |-> "SCREAMING_SNAKE_CASE",
    has_default |-> TRUE, default |-> <<"G","e","t","F","r","o","m","F","i","l","e">>,
    variants |-> <<
      <<"G","e","t","F","r","o","m","F","i","l","e">>,
      <<"N","o","S","h","i","p","p","i","n","g">>,
      <<"S","e","t","P","r","o","v","i","d","e","d","A","d","d","r","e","s","s">>
    >> ]

\* src/src/data/orders.rs:859-871  enum UserAction { Continue, PayNow }
UserAction ==
  [ name |-> "UserAction", rename_all |-> "SCREAMING_SNAKE_CASE",
    has_default |-> TRUE, default |-> <<"C","o","n","t","i","n","u","e">>,
    variants |-> <<
      <<"C","o","n","t","i","n","u","e">>,
      <<"P","a","y","N","o","w">>
    >> ]

\* src/src/data/orders.rs:873-883  enum PayeePreferred { Unrestricted, ImmediatePaymentRequired }
PayeePreferred ==
  [ name |-> "PayeePreferred", rename_all |-> "SCREAMING_SNAKE_CASE",
    has_default |-> TRUE, default |-> <<"U","n","r","e","s","t","r","i","c","t","e","d">>,
    variants |-> <<
      <<"U","n","r","e","s","t","r","i","c","t","e","d">>,
      <<"I","m","m","e","d","i","a","t","e","P","a","y","m","e","n","t","R","e","q","u","i","r","e","d">>
    >> ]

\* src/src/data/orders.rs:886-893  struct PaymentMethod
OrdersPaymentMethod ==
  [ name |-> "OrdersPaymentMethod", skip_serializing_none |-> TRUE,
    derive_serde |-> TRUE, derive_default |-> TRUE,
    derive_builder |-> FALSE, strip_option |-> FALSE,
    builder_default |-> FALSE,
    fields |-> <<
      Field("payer_selected", "payer_selected", "String", {"Option"}),
      Field("payee_preferred", "payee_preferred", "PayeePreferred", {"Option"})
    >> ]

\* src/src/data/orders.rs:896-918  struct ApplicationContext
ApplicationContext ==
  [ name |-> "ApplicationContext", skip_serializing_none |-> TRUE,
    derive_serde |-> TRUE, derive_default |-> TRUE,
    derive_builder |-> TRUE, strip_option |-> TRUE,
    builder_default |-> TRUE,
    fields |-> <<
      Field("brand_name", "brand_name", "String", {"Option"}),
      Field("locale", "locale", "String", {"Option"}),
      Field("landing_page", "landing_page", "LandingPage", {"Option"}),
      Field("shipping_preference", "shipping_preference", "ShippingPreference", {"Option"}),
      Field("user_action", "user_action", "UserAction", {"Option"}),
      Field("payment_method", "payment_method", "OrdersPaymentMethod", {"Option"}),
      Field("return_url", "return_url", "String", {"Option"}),
      Field("cancel_url", "cancel_url", "String", {"Option"})
    >> ]

\* src/src/data/orders.rs:921-933  struct PaymentCard
PaymentCard ==
  [ name |-> "PaymentCard", skip_serializing_none |-> TRUE,
    derive_serde |-> TRUE, derive_default |-> TRUE,
    derive_builder |-> TRUE, strip_option |-> FALSE,
    builder_default |-> FALSE,
    fields |-> <<
      Field("number", "number", "String", {}),
      Field("expiry", "expiry", "String", {}),
      Field("name", "name", "String", {}),
      Field("billing_address", "billing_address", "Address", {})
    >> ]

\* src/src/data/orders.rs:936-944  struct TransactionReference
TransactionReference ==
  [ name |-> "TransactionReference", skip_serializing_none |-> TRUE,
    derive_serde |-> TRUE, derive_default |-> TRUE,
    derive_builder |-> TRUE, strip_option |-> FALSE,
    builder_default |-> FALSE,
    fields |-> <<
      Field("id", "id", "String", {}),
      Field("network", "network", "String", {})
    >> ]

\* src/src/data/orders.rs:947-959  struct StoredCredential
StoredCredential ==
  [ name |-> "StoredCredential", skip_serializing_none |-> TRUE,
    derive_serde |-> TRUE, derive_default |-> TRUE,
    derive_builder |-> TRUE, strip_option |-> FALSE,
    builder_default |-> FALSE,
    fields |-> <<
      Field("payment_initiator", "payment_initiator", "String", {}),
      Field("payment_type", "payment_type", "String", {}),
      Field("usage", "usage", "String", {}),
      Field("previous_network_transaction_reference", "previous_network_transaction_reference", "TransactionReference", {})
    >> ]

\* src/src/data/orders.rs:964-974  struct OrderPaymentSource
OrderPaymentSource ==
  [ name |-> "OrderPaymentSource", skip_serializing_none |-> TRUE,
    derive_serde |-> TRUE, derive_default |-> FALSE,
    derive_builder |-> TRUE, strip_option |-> TRUE,
    builder_default |-> FALSE,
    fields |-> <<
      Field("card", "card", "PaymentCard", {}),
      Field("stored_credential", "stored_credential", "StoredCredential", {"Option", "builder(default)"})
    >> ]

\* src/src/data/orders.rs:977-995  struct OrderPayload
OrderPayload ==
  [ name |-> "OrderPayload", skip_serializing_none |-> TRUE,
    derive_serde |-> TRUE, derive_default |-> FALSE,
    derive_builder |-> TRUE, strip_option |-> TRUE,
    builder_default |-> FALSE,
    fields |-> <<
      Field("intent", "intent", "Intent", {}),
      Field("payer", "payer", "Payer", {"Option", "builder(default)"}),
      Field("purchase_units", "purchase_units", "PurchaseUnit", {"Vec"}),
      Field("application_context", "application_context", "ApplicationContext", {"Option", "builder(default)"}),
      Field("payment_source", "payment_source", "OrderPaymentSource", {"Option", "builder(default)"})
    >> ]

\* src/src/data/orders.rs:998-1033  enum CardBrand { Visa, Mastercard, Discover, Amex, Solo, JCB, Star, Delta, Switch, Maestro, CbNationale, Configoga, Confidis, Electron, Cetelem, ChinaUnionPay }
CardBrand ==
  [ name |-> "CardBrand", rename_all |-> "SCREAMING_SNAKE_CASE",
    has_default |-> FALSE, default |-> <<>>,
    variants |-> <<
      <<"V","i","s","a">>,
      <<"M","a","s","t","e","r","c","a","r","d">>,
      <<"D","i","s","c","o","v","e","r">>,
      <<"A","m","e","x">>,
      <<"S","o","l","o">>,
      <<"J","C","B">>,
      <<"S","t","a","r">>,
      <<"D","e","l","t","a">>,
      <<"S","w","i","t","c","h">>,
      <<"M","a","e","s","t","r","o">>,
      <<"C","b","N","a","t","i","o","n","a","l","e">>,
      <<"C","o","n","f","i","g","o","g","a">>,
      <<"C","o","n","f","i","d","i","s">>,
      <<"E","l","e","c","t","r","o","n">>,
      <<"C","e","t","e","l","e","m">>,
      <<"C","h","i","n","a","U","n","i","o","n","P","a","y">>
    >> ]

\* src/src/data/orders.rs:1035-1043  enum CardType { Credit, Debit, Prepaid, Unknown }
CardType ==
  [ name |-> "CardType", rename_all |-> "SCREAMING_SNAKE_CASE",
    has_default |-> FALSE, default |-> <<>>,
    variants |-> <<
      <<"C","r","e","d","i","t">>,
      <<"D","e","b","i","t">>,
      <<"P","r","e","p","a","i","d">>,
      <<"U","n","k","n","o","w","n">>
    >> ]

\* src/src/data/orders.rs:1046-1055  struct CardResponse
CardResponse ==
  [ name |-> "CardResponse", skip_serializing_none |-> FALSE,
    derive_serde |-> TRUE, derive_default |-> FALSE,
    derive_builder |-> FALSE, strip_option |-> FALSE,
    builder_default |-> FALSE,
    fields |-> <<
      Field("last_digits", "last_digits", "String", {}),
      Field("brand", "brand", "CardBrand", {}),
      Field("card_type", "type", "CardType", {})
    >> ]

\* src/src/data/orders.rs:1058-1062  struct WalletResponse
WalletResponse ==
  [ name |-> "WalletResponse", skip_serializing_none |-> FALSE,
    derive_serde |-> TRUE, derive_default |-> FALSE,
    derive_builder |-> FALSE, strip_option |-> FALSE,
    builder_default |-> FALSE,
    fields |-> <<
      Field("apple_pay", "apple_pay", "CardResponse", {})
    >> ]

\* src/src/data/orders.rs:1065-1073  struct PaypalPaymentSourceResponse
PaypalPaymentSourceResponse ==
  [ name |-> "PaypalPaymentSourceResponse", skip_serializing_none |-> FALSE,
    derive_serde |-> TRUE, derive_default |-> FALSE,
    derive_builder |-> TRUE, strip_option |-> FALSE,
    builder_default |-> FALSE,
    fields |-> <<
      Field("name", "name", "PayerName", {}),
      Field("email_address", "email_address", "String", {}),
      Field("account_id", "account_id", "String", {})
    >> ]

\* src/src/data/orders.rs:1076-1126  struct PaymentSourceResponse
PaymentSourceResponse ==
  [ name |-> "PaymentSourceResponse", skip_serializing_none |-> FALSE,
    derive_serde |-> TRUE, derive_default |-> TRUE,
    derive_builder |-> TRUE, strip_option |-> TRUE,
    builder_default |-> TRUE,
    fields |-> <<
      Field("card", "card", "Value", {"Option"}),
      Field("bancontact", "bancontact", "Value", {"Option"}),
      Field("blik", "blik", "Value", {"Option"}),
      Field("eps", "eps", "Value", {"Option"}),
      Field("giropay", "giropay", "Value", {"Option"}),
      Field("ideal", "ideal", "Value", {"Option"}),
      Field("mybank", "mybank", "Value", {"Option"}),
      Field("p24", "p24", "Value", {"Option"}),
      Field("sofort", "sofort", "Value", {"Option"}),
      Field("trustly", "trustly", "Value", {"Option"}),
      Field("venmo", "venmo", "Value", {"Option"}),
      Field("paypal", "paypal", "Value", {"Option"}),
      Field("apple_pay", "apple_pay", "Value", {"Option"}),
      Field("google_pay", "google_pay", "Value", {"Option"})
    >> ]

\* src/src/data/orders.rs:1129-1143  enum OrderStatus { Created, Saved, Approved, Voided, Completed }
OrderStatus ==
  [ name |-> "OrderStatus", rename_all |-> "SCREAMING_SNAKE_CASE",
    has_default |-> FALSE, default |-> <<>>,
    variants |-> <<
      <<"C","r","e","a","t","e","d">>,
      <<"S","a","v","e","d">>,
      <<"A","p","p","r","o","v","e","d">>,
      <<"V","o","i","d","e","d">>,
      <<"C","o","m","p","l","e","t","e","d">>
    >> ]

\* src/src/data/orders.rs:1146-1169  struct Order
Order ==
  [ name |-> "Order", skip_serializing_none |-> TRUE,
    derive_serde |-> TRUE, derive_default |-> FALSE,
    derive_builder |-> TRUE, strip_option |-> TRUE,
    builder_default |-> FALSE,
    fields |-> <<
      Field("create_time", "create_time", "DateTime", {"Option"}),
      Field("update_time", "update_time", "DateTime", {"Option"}),
      Field("id", "id", "String", {}),
      Field("purchase_units", "purchase_units", "PurchaseUnit", {"Option", "Vec"}),
      Field("links", "links", "LinkDescription", {"Vec"}),
      Field("payment_source", "payment_source", "PaymentSourceResponse", {"Option"}),
      Field("intent", "intent", "Intent", {"Option"}),
      Field("payer", "payer", "Payer", {"Option"}),
      Field("status", "status", "OrderStatus", {})
    >> ]

\* src/src/data/orders.rs:1172-1176  struct InvoiceNumber
InvoiceNumber ==
  [ name |-> "InvoiceNumber", skip_serializing_none |-> FALSE,
    derive_serde |-> TRUE, derive_default |-> FALSE,
    derive_builder |-> FALSE, strip_option |-> FALSE,
    builder_default |-> FALSE,
    fields |-> <<
      Field("invoice_number", "invoice_number", "String", {})
    >> ]

\* src/src/data/invoice.rs:9-21  struct FileReference
FileReference ==
  [ name |-> "FileReference", skip_serializing_none |-> FALSE,
    derive_serde |-> TRUE, derive_default |-> FALSE,
    derive_builder |-> FALSE, strip_option |-> FALSE,
    builder_default |-> FALSE,
    fields |-> <<
      Field("id", "id", "String", {}),
      Field("reference_url", "reference_url", "String", {}),
      Field("content_type", "content_type", "String", {}),
      Field("create_time", "create_time", "DateTime", {}),
      Field("size", "size", "String", {})
    >> ]

\* src/src/data/invoice.rs:23-45  enum PaymentTermType { DueOnReceipt, DueOnDateSpecified, Net10, Net15, Net30, Net45, Net60, Net90, NoDueDate }
PaymentTermType ==
  [ name |-> "PaymentTermType", rename_all |-> "SCREAMING_SNAKE_CASE",
    has_default |-> FALSE, default |-> <<>>,
    variants |-> <<
      <<"D","u","e","O","n","R","e","c","e","i","p","t">>,
      <<"D","u","e","O","n","D","a","t","e","S","p","e","c","i","f","i","e","d">>,
      <<"N","e","t","1","0">>,
      <<"N","e","t","1","5">>,
      <<"N","e","t","3","0">>,
      <<"N","e","t","4","5">>,
      <<"N","e","t","6","0">>,
      <<"N","e","t","9","0">>,
      <<"N","o","D","u","e","D","a","t","e">>
    >> ]

\* src/src/data/invoice.rs:48-54  struct PaymentTerm
PaymentTerm ==
  [ name |-> "PaymentTerm", skip_serializing_none |-> FALSE,
    derive_serde |-> TRUE, derive_default |-> FALSE,
    derive_builder |-> FALSE, strip_option |-> FALSE,
    builder_default |-> FALSE,
    fields |-> <<
      Field("term_type", "term_type", "PaymentTermType", {}),
      Field("due_date", "due_date", "NaiveDate", {"Option"})
    >> ]

\* src/src/data/invoice.rs:57-67  enum FlowType { MultipleRecipientsGroup, Batch, RegularSingle }
FlowType ==
  [ name |-> "FlowType", rename_all |-> "SCREAMING_SNAKE_CASE",
    has_default |-> FALSE, default |-> <<>>,
    variants |-> <<
      <<"M","u","l","t","i","p","l","e","R","e","c","i","p","i","e","n","t","s","G","r","o","u","p">>,
      <<"B","a","t","c","h">>,
      <<"R","e","g","u","l","a","r","S","i","n","g","l","e">>
    >> ]

\* src/src/data/invoice.rs:70-97  struct Metadata
Metadata ==
  [ name |-> "Metadata", skip_serializing_none |-> TRUE,
    derive_serde |-> TRUE, derive_default |-> TRUE,
    derive_builder |-> FALSE, strip_option |-> FALSE,
    builder_default |-> FALSE,
    fields |-> <<
      Field("create_time", "create_time", "DateTime", {"Option"}),
      Field("created_by", "created_by", "String", {"Option"}),
      Field("last_update_time", "last_update_time", "DateTime", {"Option"}),
      Field("last_updated_by", "last_updated_by", "DateTime", {"Option"}),
      Field("cancel_time", "cancel_time", "DateTime", {"Option"}),
      Field("cancelled_by", "cancelled_by", "DateTime", {"Option"}),
      Field("first_sent_time", "first_sent_time", "DateTime", {"Option"}),
      Field("last_sent_time", "last_sent_time", "DateTime", {"Option"}),
      Field("last_sent_by", "last_sent_by", "String", {"Option"}),
      Field("created_by_flow", "created_by_flow", "FlowType", {"Option"}),
      Field("recipient_view_url", "recipient_view_url", "String", {"Option"}),
      Field("invoicer_view_url", "invoicer_view_url", "String", {"Option"})
    >> ]

\* src/src/data/invoice.rs:100-124  struct InvoiceDetail
InvoiceDetail ==
  [ name |-> "InvoiceDetail", skip_serializing_none |-> TRUE,
    derive_serde |-> TRUE, derive_default |-> TRUE,
    derive_builder |-> TRUE, strip_option |-> TRUE,
    builder_default |-> TRUE,
    fields |-> <<
      Field("reference", "reference", "String", {"Option"}),
      Field("currency_code", "currency_code", "Currency", {}),
      Field("note", "note", "String", {"Option"}),
      Field("terms_and_conditions", "terms_and_conditions", "String", {"Option"}),
      Field("memo", "memo", "String", {"Option"}),
      Field("attachments", "attachments", "FileReference", {"Option", "Vec"}),
      Field("invoice_number", "invoice_number", "String", {"Option"}),
      Field("invoice_date", "invoice_date", "NaiveDate", {"Option"}),
      Field("payment_term", "payment_term", "PaymentTerm", {"Option"}),
      Field("metadata", "metadata", "Metadata", {"Option"})
    >> ]

\* src/src/data/invoice.rs:127-148  struct Name
Name ==
  [ name |-> "Name", skip_serializing_none |-> TRUE,
    derive_serde |-> TRUE, derive_default |-> TRUE,
    derive_builder |-> TRUE, strip_option |-> TRUE,
    builder_default |-> TRUE,
    fields |-> <<
      Field("prefix", "prefix", "String", {"Option"}),
      Field("given_name", "given_name", "String", {"Option"}),
      Field("surname", "surname", "String", {"Option"}),
      Field("middle_name", "middle_name", "String", {"Option"}),
      Field("suffix", "suffix", "String", {"Option"}),
      Field("alternate_full_name", "alternate_full_name", "String", {"Option"}),
      Field("full_name", "full_name", "String", {"Option"})
    >> ]

\* src/src/data/invoice.rs:151-162  struct PhoneDetail
PhoneDetail ==
  [ name |-> "PhoneDetail", skip_serializing_none |-> TRUE,
    derive_serde |-> TRUE, derive_default |-> TRUE,
    derive_builder |-> FALSE, strip_option |-> FALSE,
    builder_default |-> FALSE,
    fields |-> <<
      Field("country_code", "country_code", "String", {}),
      Field("national_number", "national_number", "String", {}),
      Field("extension_number", "extension_number", "String", {"Option"}),
      Field("phone_type", "phone_type", "PhoneType", {"Option"})
    >> ]

\* src/src/data/invoice.rs:165-186  struct InvoicerInfo
InvoicerInfo ==
  [ name |-> "InvoicerInfo", skip_serializing_none |-> TRUE,
    derive_serde |-> TRUE, derive_default |-> TRUE,
    derive_builder |-> TRUE, strip_option |-> TRUE,
    builder_default |-> TRUE,
    fields |-> <<
      Field("business_name", "business_name", "String", {"Option"}),
      Field("name", "name", "Name", {"Option"}),
      Field("email_address", "email_address", "String", {"Option"}),
      Field("phones", "phones", "PhoneDetail", {"Option", "Vec"}),
      Field("website", "website", "String", {"Option"}),
      Field("tax_id", "tax_id", "String", {"Option"}),
      Field("additional_notes", "additional_notes", "String", {"Option"}),
      Field("logo_url", "logo_url", "String", {"Option"})
    >> ]

\* src/src/data/invoice.rs:189-206  struct BillingInfo
BillingInfo ==
  [ name |-> "BillingInfo", skip_serializing_none |-> TRUE,
    derive_serde |-> TRUE, derive_default |-> TRUE,
    derive_builder |-> FALSE, strip_option |-> FALSE,
    builder_default |-> FALSE,
    fields |-> <<
      Field("business_name", "business_name", "String", {}),
      Field("name", "name", "Name", {"Option"}),
      Field("address", "address", "Address", {"Option"}),
      Field("email_address", "email_address", "String", {"Option"}),
      Field("phones", "phones", "PhoneDetail", {"Option", "Vec"}),
      Field("additional_info", "additional_info", "String", {"Option"}),
      Field("language", "language", "String", {"Option"})
    >> ]

\* src/src/data/invoice.rs:209-218  struct ContactInformation
ContactInformation ==
  [ name |-> "ContactInformation", skip_serializing_none |-> TRUE,
    derive_serde |-> TRUE, derive_default |-> FALSE,
    derive_builder |-> FALSE, strip_option |-> FALSE,
    builder_default |-> FALSE,
    fields |-> <<
      Field("business_name", "business_name", "String", {}),
      Field("name", "name", "Name", {"Option"}),
      Field("address", "address", "Address", {"Option"})
    >> ]

\* src/src/data/invoice.rs:221-228  struct RecipientInfo
RecipientInfo ==
  [ name |-> "RecipientInfo", skip_serializing_none |-> TRUE,
    derive_serde |-> TRUE, derive_default |-> TRUE,
    derive_builder |-> FALSE, strip_option |-> FALSE,
    builder_default |-> FALSE,
    fields |-> <<
      Field("billing_info", "billing_info", "BillingInfo", {"Option"}),
      Field("shipping_info", "shipping_info", "ContactInformation", {"Option"})
    >> ]

\* src/src/data/invoice.rs:231-240  struct Tax
Tax ==
  [ name |-> "Tax", skip_serializing_none |-> TRUE,
    derive_serde |-> TRUE, derive_default |-> FALSE,
    derive_builder |-> FALSE, strip_option |-> FALSE,
    builder_default |-> FALSE,
    fields |-> <<
      Field("name", "name", "String", {}),
      Field("percent", "percent", "String", {}),
      Field("amount", "amount", "Money", {"Option"})
    >> ]

\* src/src/data/invoice.rs:243-250  struct Discount
Discount ==
  [ name |-> "Discount", skip_serializing_none |-> FALSE,
    derive_serde |-> TRUE, derive_default |-> TRUE,
    derive_builder |-> TRUE, strip_option |-> TRUE,
    builder_default |-> TRUE,
    fields |-> <<
      Field("percent", "percent", "String", {"Option"}),
      Field("amount", "amount", "InvoiceAmount", {"Option"})
    >> ]

\* src/src/data/invoice.rs:253-262  enum UnitOfMeasure { Quantity, Hours, Amount }
UnitOfMeasure ==
  [ name |-> "UnitOfMeasure", rename_all |-> "SCREAMING_SNAKE_CASE",
    has_default |-> FALSE, default |-> <<>>,
    variants |-> <<
      <<"Q","u","a","n","t","i","t","y">>,
      <<"H","o","u","r","s">>,
      <<"A","m","o","u","n","t">>
    >> ]

\* src/src/data/invoice.rs:265-294  struct Item
InvoiceItem ==
  [ name |-> "InvoiceItem", skip_serializing_none |-> TRUE,
    derive_serde |-> TRUE, derive_default |-> FALSE,
    derive_builder |-> TRUE, strip_option |-> TRUE,
    builder_default |-> FALSE,
    fields |-> <<
      Field("id", "id", "String", {"Option", "builder(default)"}),
      Field("name", "name", "String", {}),
      Field("description", "description", "String", {"Option", "builder(default)"}),
      Field("quantity", "quantity", "String", {}),
      Field("unit_amount", "unit_amount", "Money", {}),
      Field("tax", "tax", "Tax", {"Option", "builder(default)"}),
      Field("item_date", "item_date", "DateTime", {"Option", "builder(default)"}),
      Field("discount", "discount", "Discount", {"Option", "builder(default)"}),
      Field("unit_of_measure", "unit_of_measure", "UnitOfMeasure", {"Option", "builder(default)"})
    >> ]

\* src/src/data/invoice.rs:297-305  struct PartialPayment
PartialPayment ==
  [ name |-> "PartialPayment", skip_serializing_none |-> TRUE,
    derive_serde |-> TRUE, derive_default |-> TRUE,
    derive_builder |-> TRUE, strip_option |-> TRUE,
    builder_default |-> TRUE,
    fields |-> <<
      Field("allow_partial_payment", "allow_partial_payment", "bool", {"Option"}),
      Field("minimum_amount_due", "minimum_amount_due", "Money", {"Option"})
    >> ]

\* src/src/data/invoice.rs:308-323  struct Configuration
Configuration ==
  [ name |-> "Configuration", skip_serializing_none |-> TRUE,
    derive_serde |-> TRUE, derive_default |-> TRUE,
    derive_builder |-> TRUE, strip_option |-> TRUE,
    builder_default |-> TRUE,
    fields |-> <<
      Field("tax_calculated_after_discount", "tax_calculated_after_discount", "bool", {"Option"}),
      Field("tax_inclusive", "tax_inclusive", "bool", {"Option"}),
      Field("allow_tip", "allow_tip", "bool", {"Option"}),
      Field("partial_payment", "partial_payment", "PartialPayment", {"Option"}),
      Field("template_id", "template_id", "String", {"Option"})
    >> ]

\* src/src/data/invoice.rs:326-334  struct AggregatedDiscount
AggregatedDiscount ==
  [ name |-> "AggregatedDiscount", skip_serializing_none |-> TRUE,
    derive_serde |-> TRUE, derive_default |-> TRUE,
    derive_builder |-> TRUE, strip_option |-> TRUE,
    builder_default |-> TRUE,
    fields |-> <<
      Field("invoice_discount", "invoice_discount", "Discount", {"Option"}),
      Field("item_discount", "item_discount", "Money", {"Option"})
    >> ]

\* src/src/data/invoice.rs:337-344  struct ShippingCost
ShippingCost ==
  [ name |-> "ShippingCost", skip_serializing_none |-> FALSE,
    derive_serde |-> TRUE, derive_default |-> TRUE,
    derive_builder |-> TRUE, strip_option |-> TRUE,
    builder_default |-> TRUE,
    fields |-> <<
      Field("amount", "amount", "Money", {"Option"}),
      Field("tax", "tax", "Tax", {"Option"})
    >> ]

\* src/src/data/invoice.rs:347-356  struct CustomAmount
CustomAmount ==
  [ name |-> "CustomAmount", skip_serializing_none |-> TRUE,
    derive_serde |-> TRUE, derive_default |-> TRUE,
    derive_builder |-> TRUE, strip_option |-> TRUE,
    builder_default |-> FALSE,
    fields |-> <<
      Field("label", "label", "String", {}),
      Field("amount", "amount", "Money", {"Option", "builder(default)"})
    >> ]

\* src/src/data/invoice.rs:359-373  struct Breakdown
InvoiceBreakdown ==
  [ name |-> "InvoiceBreakdown", skip_serializing_none |-> TRUE,
    derive_serde |-> TRUE, derive_default |-> TRUE,
    derive_builder |-> TRUE, strip_option |-> TRUE,
    builder_default |-> TRUE,
    fields |-> <<
      Field("item_total", "item_total", "Money", {"Option"}),
      Field("discount", "discount", "AggregatedDiscount", {"Option"}),
      Field("tax_total", "tax_total", "Money", {"Option"}),
      Field("shipping", "shipping", "ShippingCost", {"Option"}),
      Field("custom", "custom", "CustomAmount", {"Option"})
    >> ]

\* src/src/data/invoice.rs:376-391  struct Amount
InvoiceAmount ==
  [ name |-> "InvoiceAmount", skip_serializing_none |-> TRUE,
    derive_serde |-> TRUE, derive_default |-> TRUE,
    derive_builder |-> TRUE, strip_option |-> TRUE,
    builder_default |-> FALSE,
    fields |-> <<
      Field("currency_code", "currency_code", "Currency", {}),
      Field("value", "value", "String", {}),
      Field("breakdown", "breakdown", "InvoiceBreakdown", {"Option", "builder(default)"})
    >> ]

\* src/src/data/invoice.rs:405-412  enum PaymentType { Paypal, External }
PaymentType ==
  [ name |-> "PaymentType", rename_all |-> "SCREAMING_SNAKE_CASE",
    has_default |-> FALSE, default |-> <<>>,
    variants |-> <<
      <<"P","a","y","p","a","l">>,
      <<"E","x","t","e","r","n","a","l">>
    >> ]

\* src/src/data/invoice.rs:415-435  enum PaymentMethod { BankTransfer, Cash, Check, CreditCard, DebitCard, Paypal, WireTransfer, Other }
InvoicePaymentMethod ==
  [ name |-> "InvoicePaymentMethod", rename_all |-> "SCREAMING_SNAKE_CASE",
    has_default |-> TRUE, default |-> <<"P","a","y","p","a","l">>,
    variants |-> <<
      <<"B","a","n","k","T","r","a","n","s","f","e","r">>,
      <<"C","a","s","h">>,
      <<"C","h","e","c","k">>,
      <<"C","r","e","d","i","t","C","a","r","d">>,
      <<"D","e","b","i","t","C","a","r","d">>,
      <<"P","a","y","p","a","l">>,
      <<"W","i","r","e","T","r","a","n","s","f","e","r">>,
      <<"O","t","h","e","r">>
    >> ]

\* src/src/data/invoice.rs:438-462  struct PaymentDetail
PaymentDetail ==
  [ name |-> "PaymentDetail", skip_serializing_none |-> TRUE,
    derive_serde |-> TRUE, derive_default |-> FALSE,
    derive_builder |-> TRUE, strip_option |-> TRUE,
    builder_default |-> FALSE,
    fields |-> <<
      Field("type", "type", "PaymentType", {"Option", "builder(default)"}),
      Field("payment_id", "payment_id", "String", {"Option", "builder(default)"}),
      Field("payment_date", "payment_date", "DateTime", {"Option", "builder(default)"}),
      Field("method", "method", "InvoicePaymentMethod", {}),
      Field("note", "note", "String", {"Option", "builder(default)"}),
      Field("amount", "amount", "Money", {"Option", "builder(default)"}),
      Field("shipping_info", "shipping_info", "ContactInformation", {"Option", "builder(default)"})
    >> ]

\* src/src/data/invoice.rs:465-475  struct Payments
Payments ==
  [ name |-> "Payments", skip_serializing_none |-> TRUE,
    derive_serde |-> TRUE, derive_default |-> TRUE,
    derive_builder |-> TRUE, strip_option |-> TRUE,
    builder_default |-> TRUE,
    fields |-> <<
      Field("paid_amount", "paid_amount", "Money", {"Option"}),
      Field("transactions", "transactions", "PaymentDetail", {"Option", "Vec"})
    >> ]

\* src/src/data/invoice.rs:478-496  struct RefundDetail
RefundDetail ==
  [ name |-> "RefundDetail", skip_serializing_none |-> TRUE,
    derive_serde |-> TRUE, derive_default |-> FALSE,
    derive_builder |-> TRUE, strip_option |-> TRUE,
    builder_default |-> FALSE,
    fields |-> <<
      Field("type", "type", "PaymentType", {"Option", "builder(default)"}),
      Field("refund_id", "refund_id", "String", {"Option", "builder(default)"}),
      Field("refund_date", "refund_date", "DateTime", {"Option", "builder(default)"}),
      Field("amount", "amount", "Money", {"Option", "builder(default)"}),
      Field("method", "method", "InvoicePaymentMethod", {})
    >> ]

\* src/src/data/invoice.rs:499-509  struct Refunds
Refunds ==
  [ name |-> "Refunds", skip_serializing_none |-> TRUE,
    derive_serde |-> TRUE, derive_default |-> TRUE,
    derive_builder |-> TRUE, strip_option |-> TRUE,
    builder_default |-> TRUE,
    fields |-> <<
      Field("refund_amount", "refund_amount", "Money", {"Option"}),
      Field("transactions", "transactions", "RefundDetail", {"Option", "Vec"})
    >> ]

\* src/src/data/invoice.rs:512-539  enum Status { Draft, Sent, Scheduled, Paid, MarkedAsPaid, Cancelled, Refunded, PartiallyPaid, PartiallyRefunded, MarkedAsRefunded, Unpaid, PaymentPending }
Status ==
  [ name |-> "Status", rename_all |-> "SCREAMING_SNAKE_CASE",
    has_default |-> FALSE, default |-> <<>>,
    variants |-> <<
      <<"D","r","a","f","t">>,
      <<"S","e","n","t">>,
      <<"S","c","h","e","d","u","l","e","d">>,
      <<"P","a","i","d">>,
      <<"M","a","r","k","e","d","A","s","P","a","i","d">>,
      <<"C","a","n","c","e","l","l","e","d">>,
      <<"R","e","f","u","n","d","e","d">>,
      <<"P","a","r","t","i","a","l","l","y","P","a","i","d">>,
      <<"P","a","r","t","i","a","l","l","y","R","e","f","u","n","d","e","d">>,
      <<"M","a","r","k","e","d","A","s","R","e","f","u","n","d","e","d">>,
      <<"U","n","p","a","i","d">>,
      <<"P","a","y","m","e","n","t","P","e","n","d","i","n","g">>
    >> ]

\* src/src/data/invoice.rs:542-565  struct InvoicePayload
InvoicePayload ==
  [ name |-> "InvoicePayload", skip_serializing_none |-> TRUE,
    derive_serde |-> TRUE, derive_default |-> TRUE,
    derive_builder |-> TRUE, strip_option |-> TRUE,
    builder_default |-> TRUE,
    fields |-> <<
      Field("detail", "detail", "InvoiceDetail", {}),
      Field("invoicer", "invoicer", "InvoicerInfo", {"Option"}),
      Field("primary_recipient", "primary_recipient", "RecipientInfo", {"Option", "Vec"}),
      Field("additional_recipients", "additional_recipients", "String", {"Option", "Vec"}),
      Field("items", "items", "InvoiceItem", {"Vec"}),
      Field("configuration", "configuration", "Configuration", {"Option"}),
      Field("amount", "amount", "InvoiceAmount", {"Option"}),
      Field("payments", "payments", "Payments", {"Option"}),
      Field("refunds", "refunds", "Refunds", {"Option"})
    >> ]

\* src/src/data/invoice.rs:568-614  struct Invoice
Invoice ==
  [ name |-> "Invoice", skip_serializing_none |-> TRUE,
    derive_serde |-> TRUE, derive_default |-> FALSE,
    derive_builder |-> TRUE, strip_option |-> TRUE,
    builder_default |-> FALSE,
    fields |-> <<
      Field("id", "id", "String", {}),
      Field("parent_id", "parent_id", "String", {"Option", "builder(default)"}),
      Field("status", "status", "Status", {}),
      Field("detail", "detail", "InvoiceDetail", {}),
      Field("invoicer", "invoicer", "InvoicerInfo", {"Option", "builder(default)"}),
      Field("primary_recipients", "primary_recipients", "RecipientInfo", {"Option", "Vec", "builder(default)"}),
      Field("additional_recipients", "additional_recipients", "String", {"Option", "Vec", "builder(default)"}),
      Field("items", "items", "InvoiceItem", {"Option", "Vec", "builder(default)"}),
      Field("configuration", "configuration", "Configuration", {"Option", "builder(default)"}),
      Field("amount", "amount", "InvoiceAmount", {}),
      Field("due_amount", "due_amount", "Money", {"Option", "builder(default)"}),
      Field("gratuity", "gratuity", "Money", {"Option", "builder(default)"}),
      Field("payments", "payments", "Payments", {"Option", "builder(default)"}),
      Field("refunds", "refunds", "Refunds", {"Option", "builder(default)"}),
      Field("links", "links", "LinkDescription", {"Option", "Vec", "builder(default)"})
    >> ]

\* src/src/data/invoice.rs:617-628  struct InvoiceList
InvoiceList ==
  [ name |-> "InvoiceList", skip_serializing_none |-> FALSE,
    derive_serde |-> TRUE, derive_default |-> FALSE,
    derive_builder |-> TRUE, strip_option |-> FALSE,
    builder_default |-> FALSE,
    fields |-> <<
      Field("total_items", "total_items", "i32", {}),
      Field("total_pages", "total_pages", "i32", {}),
      Field("items", "items", "Invoice", {"Vec"}),
      Field("links", "links", "LinkDescription", {"Vec"})
    >> ]

\* src/src/data/invoice.rs:631-646  struct CancelReason
CancelReason ==
  [ name |-> "CancelReason", skip_serializing_none |-> TRUE,
    derive_serde |-> TRUE, derive_default |-> TRUE,
    derive_builder |-> TRUE, strip_option |-> TRUE,
    builder_default |-> TRUE,
    fields |-> <<
      Field("subject", "subject", "String", {"Option"}),
      Field("note", "note", "String", {"Option"}),
      Field("send_to_invoicer", "send_to_invoicer", "bool", {"Option"}),
      Field("send_to_recipient", "send_to_recipient", "bool", {"Option"}),
      Field("additional_recipients", "additional_recipients", "String", {"Option", "Vec"})
    >> ]

\* src/src/data/invoice.rs:654-664  struct QRCodeParams
QRCodeParams ==
  [ name |-> "QRCodeParams", skip_serializing_none |-> FALSE,
    derive_serde |-> TRUE, derive_default |-> TRUE,
    derive_builder |-> TRUE, strip_option |-> FALSE,
    builder_default |-> FALSE,
    fields |-> <<
      Field("width", "width", "i32", {}),
      Field("height", "height", "i32", {}),
      Field("action", "action", "String", {"Option"})
    >> ]

\* src/src/data/invoice.rs:667-682  struct RecordPaymentPayload
RecordPaymentPayload ==
  [ name |-> "RecordPaymentPayload", skip_serializing_none |-> TRUE,
    derive_serde |-> TRUE, derive_default |-> TRUE,
    derive_builder |-> TRUE, strip_option |-> FALSE,
    builder_default |-> FALSE,
    fields |-> <<
      Field("payment_id", "payment_id", "String", {"Option"}),
      Field("payment_date", "payment_date", "DateTime", {"Option"}),
      Field("method", "method", "InvoicePaymentMethod", {}),
      Field("note", "note", "String", {"Option"}),
      Field("amount", "amount", "InvoiceAmount", {}),
      Field("shipping_info", "shipping_info", "ContactInformation", {"Option"})
    >> ]

\* src/src/data/invoice.rs:685-699  struct SendInvoicePayload
SendInvoicePayload ==
  [ name |-> "SendInvoicePayload", skip_serializing_none |-> TRUE,
    derive_serde |-> TRUE, derive_default |-> TRUE,
    derive_builder |-> TRUE, strip_option |-> FALSE,
    builder_default |-> FALSE,
    fields |-> <<
      Field("additional_recipients", "additional_recipients", "String", {"Option", "Vec"}),
      Field("note", "note", "String", {"Option"}),
      Field("send_to_invoicer", "send_to_invoicer", "bool", {"Option"}),
      Field("send_to_recipient", "send_to_recipient", "bool", {"Option"}),
      Field("subject", "subject", "String", {"Option"})
    >> ]

\* src/src/data/tracking.rs:10-33  struct OrderTracking
OrderTracking ==
  [ name |-> "OrderTracking", skip_serializing_none |-> TRUE,
    derive_serde |-> TRUE, derive_default |-> TRUE,
    derive_builder |-> TRUE, strip_option |-> TRUE,
    builder_default |-> FALSE,
    fields |-> <<
      Field("tracking_number", "tracking_number", "String", {}),
      Field("carrier_name_other", "carrier_name_other", "String", {"Option"}),
      Field("carrier", "carrier", "ShipmentCarrier", {}),
      Field("capture_id", "capture_id", "String", {}),
      Field("notify_payer", "notify_payer", "bool", {"Option"}),
      Field("items", "items", "TrackingShipmentItem", {"Option", "Vec"})
    >> ]

\* src/src/data/tracking.rs:36-53  struct ShipmentItem
TrackingShipmentItem ==
  [ name |-> "TrackingShipmentItem", skip_serializing_none |-> TRUE,
    derive_serde |-> TRUE, derive_default |-> TRUE,
    derive_builder |-> TRUE, strip_option |-> FALSE,
    builder_default |-> FALSE,
    fields |-> <<
      Field("name", "name", "String", {"Option"}),
      Field("quantity", "quantity", "String", {"Option"}),
      Field("sku", "sku", "String", {"Option"}),
      Field("url", "url", "String", {"Option"}),
      Field("image_url", "image_url", "String", {"Option"}),
      Field("upc", "upc", "ItemUpc", {"Option"})
    >> ]

\* src/src/api/tracking.rs:12-18  struct AddOrderTracking
AddOrderTracking ==
  [ name |-> "AddOrderTracking", skip_serializing_none |-> FALSE,
    derive_serde |-> FALSE, derive_default |-> FALSE,
    derive_builder |-> TRUE, strip_option |-> FALSE,
    builder_default |-> FALSE,
    fields |-> <<
      Field("order_id", "order_id", "String", {}),
      Field("body", "body", "OrderTracking", {})
    >> ]

-----------------------------------------------------------------------------
(* Types declared in src/data/common.rs, which these files import.  Their  *)
(* values are kept whole: value id of kind k is written as one well-formed *)
(* JSON fragment and read back from it.                                    *)

CommonKinds ==
  { "Address", "AuthorizationStatusDetails", "Currency", "ItemUpc",
    "LinkDescription", "Money", "PhoneType", "ShipmentCarrier" }

\* the values of a common.rs type the model draws from
CommonSamples(k) ==
  IF k = "Currency" THEN << Extern(k, "EUR"), Extern(k, "USD") >>
  ELSE << Extern(k, "1") >>

\* Default::default() of a common.rs type
CommonDefault(k) == Extern(k, "default")

-----------------------------------------------------------------------------
(* Lookup of a declaration by type name.                                   *)

EnumNames ==
  { "Intent", "TaxIdType", "DisbursementMode", "ItemCategoryType",
    "ShippingType", "TrackerStatus", "AuthorizationStatus",
    "SellerProtectionStatus", "CaptureStatus",
    "CaptureStatusDetailsReason", "RefundStatus",
    "RefundStatusDetailsReason", "LandingPage", "ShippingPreference",
    "UserAction", "PayeePreferred", "CardBrand", "CardType", "OrderStatus",
    "PaymentTermType", "FlowType", "UnitOfMeasure", "PaymentType",
    "InvoicePaymentMethod", "Status" }

StructNames ==
  { "PayerName", "PhoneNumber", "Phone", "TaxInfo", "Payer",
    "OrdersBreakdown", "OrdersAmount", "Payee", "PlatformFee",
    "PaymentInstruction", "ShippingDetailName", "OrdersShipmentItem",
    "TransactionTracker", "ShippingOption", "ShippingDetail", "OrdersItem",
    "SellerProtection", "NetworkTransactionReference",
    "AuthorizationWithData", "CaptureStatusDetails", "ExchangeRateDetail",
    "SellerReceivableBreakdown", "Capture", "RefundStatusDetails",
    "ExchangeRate", "NetAmountBreakdown", "SellerPayableBreakdown",
    "Refund", "PaymentCollection", "SupplementaryCustomer",
    "SupplementaryRisk", "SupplementaryData", "PurchaseUnit",
    "OrdersPaymentMethod", "ApplicationContext", "PaymentCard",
    "TransactionReference", "StoredCredential", "OrderPaymentSource",
    "OrderPayload", "CardResponse", "WalletResponse",
    "PaypalPaymentSourceResponse", "PaymentSourceResponse", "Order",
    "InvoiceNumber", "FileReference", "PaymentTerm", "Metadata",
    "InvoiceDetail", "Name", "PhoneDetail", "InvoicerInfo", "BillingInfo",
    "ContactInformation", "RecipientInfo", "Tax", "Discount",
    "InvoiceItem", "PartialPayment", "Configuration", "AggregatedDiscount",
    "ShippingCost", "CustomAmount", "InvoiceBreakdown", "InvoiceAmount",
    "PaymentDetail", "Payments", "RefundDetail", "Refunds",
    "InvoicePayload", "Invoice", "InvoiceList", "CancelReason",
    "QRCodeParams", "RecordPaymentPayload", "SendInvoicePayload",
    "OrderTracking", "TrackingShipmentItem", "AddOrderTracking" }

\* the standard and library types a field may have
LeafKinds == { "String", "bool", "i32", "DateTime", "NaiveDate", "Value" }

\* every type name
Kinds == LeafKinds \cup CommonKinds \cup EnumNames \cup StructNames

\* the declaration of the enum named e
EnumDecl(e) ==
  CASE e = "Intent" -> Intent
    [] e = "TaxIdType" -> TaxIdType
    [] e = "DisbursementMode" -> DisbursementMode
    [] e = "ItemCategoryType" -> ItemCategoryType
    [] e = "ShippingType" -> ShippingType
    [] e = "TrackerStatus" -> TrackerStatus
    [] e = "AuthorizationStatus" -> AuthorizationStatus
    [] e = "SellerProtectionStatus" -> SellerProtectionStatus
    [] e = "CaptureStatus" -> CaptureStatus
    [] e = "CaptureStatusDetailsReason" -> CaptureStatusDetailsReason
    [] e = "RefundStatus" -> RefundStatus
    [] e = "RefundStatusDetailsReason" -> RefundStatusDetailsReason
    [] e = "LandingPage" -> LandingPage
    [] e = "ShippingPreference" -> ShippingPreference
    [] e = "UserAction" -> UserAction
    [] e = "PayeePreferred" -> PayeePreferred
    [] e = "CardBrand" -> CardBrand
    [] e = "CardType" -> CardType
    [] e = "OrderStatus" -> OrderStatus
    [] e = "PaymentTermType" -> PaymentTermType
    [] e = "FlowType" -> FlowType
    [] e = "UnitOfMeasure" -> UnitOfMeasure
    [] e = "PaymentType" -> PaymentType
    [] e = "InvoicePaymentMethod" -> InvoicePaymentMethod
    [] e = "Status" -> Status

\* the declaration of the struct named ty
StructDecl(ty) ==
  CASE ty = "PayerName" -> PayerName
    [] ty = "PhoneNumber" -> PhoneNumber
    [] ty = "Phone" -> Phone
    [] ty = "TaxInfo" -> TaxInfo
    [] ty = "Payer" -> Payer
    [] ty = "OrdersBreakdown" -> OrdersBreakdown
    [] ty = "OrdersAmount" -> OrdersAmount
    [] ty = "Payee" -> Payee
    [] ty = "PlatformFee" -> PlatformFee
    [] ty = "PaymentInstruction" -> PaymentInstruction
    [] ty = "ShippingDetailName" -> ShippingDetailName
    [] ty = "OrdersShipmentItem" -> OrdersShipmentItem
    [] ty = "TransactionTracker" -> TransactionTracker
    [] ty = "ShippingOption" -> ShippingOption
    [] ty = "ShippingDetail" -> ShippingDetail
    [] ty = "OrdersItem" -> OrdersItem
    [] ty = "SellerProtection" -> SellerProtection
    [] ty = "NetworkTransactionReference" -> NetworkTransactionReference
    [] ty = "AuthorizationWithData" -> AuthorizationWithData
    [] ty = "CaptureStatusDetails" -> CaptureStatusDetails
    [] ty = "ExchangeRateDetail" -> ExchangeRateDetail
    [] ty = "SellerReceivableBreakdown" -> SellerReceivableBreakdown
    [] ty = "Capture" -> Capture
    [] ty = "RefundStatusDetails" -> RefundStatusDetails
    [] ty = "ExchangeRate" -> ExchangeRate
    [] ty = "NetAmountBreakdown" -> NetAmountBreakdown
    [] ty = "SellerPayableBreakdown" -> SellerPayableBreakdown
    [] ty = "Refund" -> Refund
    [] ty = "PaymentCollection" -> PaymentCollection
    [] ty = "SupplementaryCustomer" -> SupplementaryCustomer
    [] ty = "SupplementaryRisk" -> SupplementaryRisk
    [] ty = "SupplementaryData" -> SupplementaryData
    [] ty = "PurchaseUnit" -> PurchaseUnit
    [] ty = "OrdersPaymentMethod" -> OrdersPaymentMethod
    [] ty = "ApplicationContext" -> ApplicationContext
    [] ty = "PaymentCard" -> PaymentCard
    [] ty = "TransactionReference" -> TransactionReference
    [] ty = "StoredCredential" -> StoredCredential
    [] ty = "OrderPaymentSource" -> OrderPaymentSource
    [] ty = "OrderPayload" -> OrderPayload
    [] ty = "CardResponse" -> CardResponse
    [] ty = "WalletResponse" -> WalletResponse
    [] ty = "PaypalPaymentSourceResponse" -> PaypalPaymentSourceResponse
    [] ty = "PaymentSourceResponse" -> PaymentSourceResponse
    [] ty = "Order" -> Order
    [] ty = "InvoiceNumber" -> InvoiceNumber
    [] ty = "FileReference" -> FileReference
    [] ty = "PaymentTerm" -> PaymentTerm
    [] ty = "Metadata" -> Metadata
    [] ty = "InvoiceDetail" -> InvoiceDetail
    [] ty = "Name" -> Name
    [] ty = "PhoneDetail" -> PhoneDetail
    [] ty = "InvoicerInfo" -> InvoicerInfo
    [] ty = "BillingInfo" -> BillingInfo
    [] ty = "ContactInformation" -> ContactInformation
    [] ty = "RecipientInfo" -> RecipientInfo
    [] ty = "Tax" -> Tax
    [] ty = "Discount" -> Discount
    [] ty = "InvoiceItem" -> InvoiceItem
    [] ty = "PartialPayment" -> PartialPayment
    [] ty = "Configuration" -> Configuration
    [] ty = "AggregatedDiscount" -> AggregatedDiscount
    [] ty = "ShippingCost" -> ShippingCost
    [] ty = "CustomAmount" -> CustomAmount
    [] ty = "InvoiceBreakdown" -> InvoiceBreakdown
    [] ty = "InvoiceAmount" -> InvoiceAmount
    [] ty = "PaymentDetail" -> PaymentDetail
    [] ty = "Payments" -> Payments
    [] ty = "RefundDetail" -> RefundDetail
    [] ty = "Refunds" -> Refunds
    [] ty = "InvoicePayload" -> InvoicePayload
    [] ty = "Invoice" -> Invoice
    [] ty = "InvoiceList" -> InvoiceList
    [] ty = "CancelReason" -> CancelReason
    [] ty = "QRCodeParams" -> QRCodeParams
    [] ty = "RecordPaymentPayload" -> RecordPaymentPayload
    [] ty = "SendInvoicePayload" -> SendInvoicePayload
    [] ty = "OrderTracking" -> OrderTracking
    [] ty = "TrackingShipmentItem" -> TrackingShipmentItem
    [] ty = "AddOrderTracking" -> AddOrderTracking

FieldNames(T) == { T.fields[i].name : i \in DOMAIN T.fields }

FieldNamed(T, n) == T.fields[CHOOSE i \in DOMAIN T.fields : T.fields[i].name = n]

\* the fields of T that are declared Option<..>
OptionFields(T) == { T.fields[i].name : i \in { k \in DOMAIN T.fields : T.fields[k].option } }

\* the fields of T that are not declared Option<..>
RequiredFields(T) == FieldNames(T) \ OptionFields(T)

-----------------------------------------------------------------------------
(* Values the model draws from.                                            *)

\* well-formed RFC 3339 timestamps and calendar dates (chrono's text forms)
TimeTexts == { <<"t","1","Z">>, <<"t","2","Z">> }

DateTexts == { <<"d","1">> }

\* the samples of struct kind, given its minimal value m: a Breakdown is
\* drawn empty and with an item total, a capture or authorization without
\* and with a processor response of Some(Value::Null)
StructSamples(kind, m) ==
  IF kind \in { "OrdersBreakdown", "InvoiceBreakdown" }
  THEN << m, [ m EXCEPT !.fields["item_total"] = CommonSamples("Money")[1] ] >>
  ELSE IF kind \in { "Capture", "AuthorizationWithData" }
  THEN << m, [ m EXCEPT !.fields["processor_response"] = Json(JNull) ] >>
  ELSE << m >>

RECURSIVE Minimal(_)
\* the non-None values of a type the model draws from, first the one that
\* Minimal uses
Samples(kind) ==
  CASE kind = "String" -> << Str(<<"a">>), Str(<<"b">>) >>
    [] kind = "bool" -> << Bool(TRUE), Bool(FALSE) >>
    [] kind = "i32" -> << I32(1) >>
    [] kind = "DateTime" -> << Time(<<"t","1","Z">>) >>
    [] kind = "NaiveDate" -> << Date(<<"d","1">>) >>
    [] kind = "Value" -> << Json(JString(<<"x">>)), Json(JNull) >>
    [] kind \in CommonKinds -> CommonSamples(kind)
    [] kind \in EnumNames ->
         LET E == EnumDecl(kind)
         IN  [ i \in 1..(IF Len(E.variants) > 1 THEN 2 ELSE 1) |-> Variant(kind, E.variants[i]) ]
    [] kind \in StructNames -> StructSamples(kind, Minimal(kind))

\* a struct literal giving every Option field None, every Vec the empty
\* vector and every other field a sample of its type
Minimal(ty) ==
  LET T == StructDecl(ty)
  IN  StructOf(ty,
        [ n \in FieldNames(T) |->
            LET f == FieldNamed(T, n)
            IN  IF f.option THEN None
                ELSE IF f.vec THEN VecOf(<< >>)
                ELSE Samples(f.kind)[1] ])

\* Samples, tabulated
SamplesOf == [ kind \in Kinds |-> Samples(kind) ]

\* the values other than None a field declared as f may be given, ss being
\* the samples of its type: an empty or a one-element Vec when it is a Vec
\* (of a struct: one Vec for each sample of the struct)
SomeSamples(f, ss) ==
  IF f.vec
  THEN { VecOf(<< >>) }
       \cup { VecOf(<< ss[i] >>) :
                i \in 1..(IF f.kind \in StructNames THEN Len(ss) ELSE 1) }
  ELSE Range(ss)

\* the values a field declared as f may be given: None when it is an
\* Option, and the samples of its type
FieldSamples(f) ==
  (IF f.option THEN { None } ELSE { }) \cup SomeSamples(f, SamplesOf[f.kind])

-----------------------------------------------------------------------------
(* serde: the names of enum variants on the wire.                          *)

\* (deliberately wrong variant) a renaming that lower-cases the identifier and separates nothing
SnakeCaseNoUnderscore(v) == [ i \in 1..Len(v) |-> ToAsciiLowercase(v[i]) ]

\* serde_derive's RenameRule::SnakeCase.apply_to_variant: an underscore
\* before every upper-case character but the first, all lower-cased
SnakeCase(v) ==
  Concat([ i \in 1..Len(v) |->
             IF i > 1 /\ IsUppercase(v[i])
             THEN << "_", ToAsciiLowercase(v[i]) >>
             ELSE << ToAsciiLowercase(v[i]) >> ])

\* RenameRule::apply_to_variant for the rules the source uses: no
\* rename_all keeps the identifier of the variant
ApplyToVariant(rule, v) ==
  IF rule = "SCREAMING_SNAKE_CASE" THEN StrToAsciiUppercase(SnakeCase(v)) ELSE v

\* the wire token of variant v of enum e
Token(e, v) == ApplyToVariant(EnumDecl(e).rename_all, v)

\* the wire tokens of enum e
Tokens(e) == { Token(e, v) : v \in Range(EnumDecl(e).variants) }

-----------------------------------------------------------------------------
(* serde: Serialize.                                                       *)

\* serde_with::skip_serializing_none puts skip_serializing_if =
\* "Option::is_none" on every Option field of the struct it is applied to
SkipsField(T, f, x) == T.skip_serializing_none /\ f.option /\ x = None

RECURSIVE Serialize(_)
\* (deliberately wrong variant) a None that is not skipped is refused, with
\* an error in place of the document
SerializeRefusingNone(x) ==
  CASE x.t = "None" -> [ j |-> "error" ]
    [] x.t = "String" -> JString(x.s)
    [] x.t = "bool" -> JBool(x.b)
    [] x.t = "i32" -> JNumber(x.n)
    [] x.t = "DateTime" -> JString(x.utc)
    [] x.t = "NaiveDate" -> JString(x.ymd)
    [] x.t = "Value" -> x.json
    [] x.t = "Extern" -> JExtern(x.kind, x.id)
    [] x.t = "Enum" -> JString(Token(x.enum, x.variant))
    [] x.t = "Vec" -> JArray([ i \in 1..Len(x.items) |-> Serialize(x.items[i]) ])
    [] x.t = "Struct" ->
         LET T == StructDecl(x.ty)
             kept == { i \in DOMAIN T.fields :
                         ~SkipsField(T, T.fields[i], x.fields[T.fields[i].name]) }
             byKey(k) == T.fields[CHOOSE i \in kept : T.fields[i].key = k]
         IN  JObject([ k \in { T.fields[i].key : i \in kept } |->
                         Serialize(x.fields[byKey(k).name]) ])

\* serde_json::to_value of a value
Serialize(x) ==
  CASE x.t = "None" -> JNull
    [] x.t = "String" -> JString(x.s)
    [] x.t = "bool" -> JBool(x.b)
    [] x.t = "i32" -> JNumber(x.n)
    [] x.t = "DateTime" -> JString(x.utc)
    [] x.t = "NaiveDate" -> JString(x.ymd)
    [] x.t = "Value" -> x.json
    [] x.t = "Extern" -> JExtern(x.kind, x.id)
    [] x.t = "Enum" -> JString(Token(x.enum, x.variant))
    [] x.t = "Vec" -> JArray([ i \in 1..Len(x.items) |-> Serialize(x.items[i]) ])
    [] x.t = "Struct" ->
         LET T == StructDecl(x.ty)
             kept == { i \in DOMAIN T.fields :
                         ~SkipsField(T, T.fields[i], x.fields[T.fields[i].name]) }
             byKey(k) == T.fields[CHOOSE i \in kept : T.fields[i].key = k]
         IN  JObject([ k \in { T.fields[i].key : i \in kept } |->
                         Serialize(x.fields[byKey(k).name]) ])

-----------------------------------------------------------------------------
(* Default::default(), derived or of the standard types.                   *)

RECURSIVE DefaultValue(_)
\* Default::default() of the type of field f
DefaultField(f) ==
  IF f.option THEN None
  ELSE IF f.vec THEN VecOf(<< >>)
  ELSE DefaultValue(f.kind)

\* Default::default() of the named type
DefaultValue(kind) ==
  CASE kind = "String" -> Str(<< >>)
    [] kind = "bool" -> Bool(FALSE)
    [] kind = "i32" -> I32(0)
    [] kind = "Value" -> Json(JNull)
    [] kind \in CommonKinds -> CommonDefault(kind)
    [] kind \in EnumNames -> Variant(kind, EnumDecl(kind).default)
    [] kind \in StructNames ->
         LET T == StructDecl(kind)
         IN  StructOf(kind, [ n \in FieldNames(T) |-> DefaultField(FieldNamed(T, n)) ])

\* Default::default() of every struct that derives Default, tabulated
DefaultOf ==
  [ ty \in { s \in StructNames : StructDecl(s).derive_default } |-> DefaultValue(ty) ]

-----------------------------------------------------------------------------
(* serde: Deserialize.                                                     *)

\* (deliberately wrong variant) variant names matched without regard to case
DeserializeEnumIgnoreCase(e, j) ==
  LET E == EnumDecl(e)
      named(s) == { v \in Range(E.variants) :
                      StrToAsciiLowercase(ApplyToVariant(E.rename_all, v))
                        = StrToAsciiLowercase(s) }
  IN  IF j.j = "string"
      THEN IF named(j.str) # { }
           THEN Ok(Variant(e, CHOOSE v \in named(j.str) : TRUE))
           ELSE Err("unknown variant", "")
      ELSE Err("invalid type", "")

\* Deserialize of an enum of unit variants from a JSON scalar: the string
\* that is the wire name of a variant, and nothing else
DeserializeEnum(e, j) ==
  LET E == EnumDecl(e)
      named(s) == { v \in Range(E.variants) : ApplyToVariant(E.rename_all, v) = s }
  IN  IF j.j = "string"
      THEN IF named(j.str) # { }
           THEN Ok(Variant(e, CHOOSE v \in named(j.str) : TRUE))
           ELSE Err("unknown variant", "")
      ELSE Err("invalid type", "")

\* Deserialize of the types that are not declared in these files
DeserializeLeaf(kind, j) ==
  CASE kind = "String" ->
         IF j.j = "string" THEN Ok(Str(j.str)) ELSE Err("invalid type", "")
    [] kind = "bool" ->
         IF j.j = "bool" THEN Ok(Bool(j.bit)) ELSE Err("invalid type", "")
    [] kind = "i32" ->
         IF j.j = "number" THEN Ok(I32(j.num)) ELSE Err("invalid type", "")
    [] kind = "DateTime" ->
         IF j.j # "string" THEN Err("invalid type", "")
         ELSE IF j.str \in TimeTexts THEN Ok(Time(j.str))
         ELSE Err("invalid value", "")
    [] kind = "NaiveDate" ->
         IF j.j # "string" THEN Err("invalid type", "")
         ELSE IF j.str \in DateTexts THEN Ok(Date(j.str))
         ELSE Err("invalid value", "")
    [] kind = "Value" -> Ok(Json(j))
    [] kind \in CommonKinds ->
         IF j.j = "extern" /\ j.of = kind THEN Ok(Extern(kind, j.eid))
         ELSE Err("invalid type", "")

\* the first error of a sequence of results, or NoResult when all are Ok
FirstErr(rs) ==
  LET bad == { i \in DOMAIN rs : ~rs[i].ok }
  IN  IF bad = { } THEN NoResult
      ELSE rs[CHOOSE i \in bad : \A k \in bad : i <= k]

RECURSIVE Deserialize(_, _)
RECURSIVE DeserializeField(_, _)
\* (deliberately wrong variant) a struct that refuses the keys it does not
\* declare, as under serde(deny_unknown_fields)
DeserializeStructDenyUnknown(ty, j) ==
  LET T == StructDecl(ty)
      missing(f) ==
        IF f.option THEN Ok(None)
        ELSE IF f.serde_default THEN Ok(DefaultField(f))
        ELSE Err("missing field", f.name)
      rs == [ i \in DOMAIN T.fields |->
                LET f == T.fields[i]
                IN  IF f.key \in Keys(j)
                    THEN LET r == DeserializeField(f, j.members[f.key])
                         IN  IF r.ok THEN r ELSE Err(r.err, f.name)
                    ELSE missing(f) ]
  IN  IF j.j # "object" THEN Err("invalid type", "")
      ELSE IF Keys(j) \ { T.fields[i].key : i \in DOMAIN T.fields } # { }
      THEN Err("unknown field", "")
      ELSE IF FirstErr(rs) # NoResult THEN FirstErr(rs)
      ELSE Ok(StructOf(ty, [ n \in FieldNames(T) |->
                 rs[CHOOSE i \in DOMAIN T.fields : T.fields[i].name = n].v ]))

\* the derived Deserialize of struct ty, from a JSON object: every declared
\* key that is present is decoded, keys that are not declared are ignored,
\* a missing key is None for an Option field, Default::default() for a
\* serde(default) field and an error for any other
DeserializeStruct(ty, j) ==
  LET T == StructDecl(ty)
      missing(f) ==
        IF f.option THEN Ok(None)
        ELSE IF f.serde_default THEN Ok(DefaultField(f))
        ELSE Err("missing field", f.name)
      rs == [ i \in DOMAIN T.fields |->
                LET f == T.fields[i]
                IN  IF f.key \in Keys(j)
                    THEN LET r == DeserializeField(f, j.members[f.key])
                         IN  IF r.ok THEN r ELSE Err(r.err, f.name)
                    ELSE missing(f) ]
  IN  IF j.j # "object" THEN Err("invalid type", "")
      ELSE IF FirstErr(rs) # NoResult THEN FirstErr(rs)
      ELSE Ok(StructOf(ty, [ n \in FieldNames(T) |->
                 rs[CHOOSE i \in DOMAIN T.fields : T.fields[i].name = n].v ]))

\* Deserialize of a value of the named type
Deserialize(kind, j) ==
  IF kind \in EnumNames THEN DeserializeEnum(kind, j)
  ELSE IF kind \in StructNames THEN DeserializeStruct(kind, j)
  ELSE DeserializeLeaf(kind, j)

\* (deliberately wrong variant) null read as the empty vector of a Vec field
DeserializeFieldNullAsEmpty(f, j) ==
  IF (f.option \/ f.vec) /\ j = JNull THEN Ok(DefaultField(f))
  ELSE IF f.vec
  THEN IF j.j # "array" THEN Err("invalid type", "")
       ELSE LET rs == [ i \in DOMAIN j.elems |-> Deserialize(f.kind, j.elems[i]) ]
            IN  IF FirstErr(rs) # NoResult THEN FirstErr(rs)
                ELSE Ok(VecOf([ i \in DOMAIN rs |-> rs[i].v ]))
  ELSE Deserialize(f.kind, j)

\* (deliberately wrong variant) a Vec read leniently: the elements that fail
\* to decode are left out
DeserializeFieldSkippingBad(f, j) ==
  IF f.option /\ j = JNull THEN Ok(None)
  ELSE IF f.vec
  THEN IF j.j # "array" THEN Err("invalid type", "")
       ELSE LET rs == [ i \in DOMAIN j.elems |-> Deserialize(f.kind, j.elems[i]) ]
                good == SelectSeq(rs, LAMBDA r : r.ok)
            IN  Ok(VecOf([ i \in DOMAIN good |-> good[i].v ]))
  ELSE Deserialize(f.kind, j)

\* Deserialize of the value of one field: null is None for an Option, a
\* Vec is read from an array, element by element
DeserializeField(f, j) ==
  IF f.option /\ j = JNull THEN Ok(None)
  ELSE IF f.vec
  THEN IF j.j # "array" THEN Err("invalid type", "")
       ELSE LET rs == [ i \in DOMAIN j.elems |-> Deserialize(f.kind, j.elems[i]) ]
            IN  IF FirstErr(rs) # NoResult THEN FirstErr(rs)
                ELSE Ok(VecOf([ i \in DOMAIN rs |-> rs[i].v ]))
  ELSE Deserialize(f.kind, j)

-----------------------------------------------------------------------------
(* derive_builder: the generated builder of a struct.                      *)

\* TBuilder::default(): no field stored yet
EmptyBuilder(T) == [ n \in FieldNames(T) |-> Unset ]

\* the values a generated setter accepts for field f: with
\* setter(strip_option) the setter of an Option<X> field takes an X
SetterArgs(T, f) ==
  IF T.strip_option THEN FieldSamples(f) \ { None } ELSE FieldSamples(f)

\* (deliberately wrong variant) a setter that keeps what an earlier call stored
SetterKeepFirst(b, n, x) == IF b[n] = Unset THEN [ b EXCEPT ![n] = x ] ELSE b

\* a generated setter: stores its argument, whatever was stored before
Setter(b, n, x) == [ b EXCEPT ![n] = x ]

\* (deliberately wrong variant) only a builder(default) on the struct counts
HasDefaultStructOnly(T, f) == T.builder_default

\* whether build() can fill field f without a stored value: from the
\* field's builder(default), or from the struct's builder(default)
HasDefault(T, f) == f.builder_default \/ T.builder_default

\* the value build() gives a field nothing was stored to
Defaulted(T, f) ==
  IF f.builder_default THEN DefaultField(f)
  ELSE DefaultOf[T.name].fields[f.name]

\* (deliberately wrong variant) a build() that never reports a field, leaving None in its place
BuildLenient(T, b) ==
  Ok(StructOf(T.name, [ n \in FieldNames(T) |-> IF b[n] # Unset THEN b[n] ELSE None ]))

\* (deliberately wrong variant) a build() that refuses an Amount whose
\* breakdown has an item total that is not the value of the Amount
BuildCheckingTotals(T, b) ==
  LET lacking == { i \in DOMAIN T.fields :
                     b[T.fields[i].name] = Unset /\ ~HasDefault(T, T.fields[i]) }
      total == b["breakdown"].fields["item_total"]
  IN  IF lacking # { }
      THEN Err("UninitializedField",
               T.fields[CHOOSE i \in lacking : \A k \in lacking : i <= k].name)
      ELSE IF /\ T.name \in { "OrdersAmount", "InvoiceAmount" }
              /\ b["breakdown"] # Unset /\ total # None
              /\ b["value"].s # << total.id >>
      THEN Err("ValidationError", "breakdown")
      ELSE Ok(StructOf(T.name,
                [ n \in FieldNames(T) |->
                    IF b[n] # Unset THEN b[n] ELSE Defaulted(T, FieldNamed(T, n)) ]))

\* the generated build(): the first field, in declaration order, that has
\* neither a stored value nor a default is reported as uninitialized
Build(T, b) ==
  LET lacking == { i \in DOMAIN T.fields :
                     b[T.fields[i].name] = Unset /\ ~HasDefault(T, T.fields[i]) }
  IN  IF lacking # { }
      THEN Err("UninitializedField",
               T.fields[CHOOSE i \in lacking : \A k \in lacking : i <= k].name)
      ELSE Ok(StructOf(T.name,
                [ n \in FieldNames(T) |->
                    IF b[n] # Unset THEN b[n] ELSE Defaulted(T, FieldNamed(T, n)) ]))

-----------------------------------------------------------------------------
(* The ::new helpers of the two Amount structs.                            *)

\* str::to_owned / Into<String> for &str: the same characters
ToOwned(value) == Str(value)

\* the text without the zeros that end its fraction
RECURSIVE TrimFraction(_)
TrimFraction(s) ==
  IF "." \in Range(s) /\ s[Len(s)] = "0" THEN TrimFraction(SubSeq(s, 1, Len(s) - 1)) ELSE s

\* (deliberately wrong variant) the value is normalized as a decimal number
OrdersAmountNewNormalized(currency, value) ==
  StructOf("OrdersAmount",
    [ n \in { "currency_code", "value", "breakdown" } |->
        CASE n = "currency_code" -> currency
          [] n = "value" -> Str(TrimFraction(value))
          [] n = "breakdown" -> None ])

\* orders::Amount::new
OrdersAmountNew(currency, value) ==
  StructOf("OrdersAmount",
    [ n \in { "currency_code", "value", "breakdown" } |->
        CASE n = "currency_code" -> currency
          [] n = "value" -> ToOwned(value)
          [] n = "breakdown" -> None ])

\* orders::Amount::eur
OrdersAmountEur(value) ==
  StructOf("OrdersAmount",
    [ n \in { "currency_code", "value", "breakdown" } |->
        CASE n = "currency_code" -> Extern("Currency", "EUR")
          [] n = "value" -> ToOwned(value)
          [] n = "breakdown" -> None ])

\* orders::Amount::usd
OrdersAmountUsd(value) ==
  StructOf("OrdersAmount",
    [ n \in { "currency_code", "value", "breakdown" } |->
        CASE n = "currency_code" -> Extern("Currency", "USD")
          [] n = "value" -> ToOwned(value)
          [] n = "breakdown" -> None ])

\* invoice::Amount::new
InvoiceAmountNew(currency_code, value) ==
  StructOf("InvoiceAmount",
    [ n \in { "currency_code", "value", "breakdown" } |->
        CASE n = "currency_code" -> currency_code
          [] n = "value" -> ToOwned(value)
          [] n = "breakdown" -> None ])

\* (deliberately wrong variant) a constructor that also gives the purchase
\* unit a reference id
PurchaseUnitNewWithReference(amount) ==
  [ DefaultOf["PurchaseUnit"] EXCEPT !.fields["amount"] = amount,
                                     !.fields["reference_id"] = Str(<<"d","e","f","a","u","l","t">>) ]

\* PurchaseUnit::new: Self { amount, ..Default::default() }
PurchaseUnitNew(amount) ==
  [ DefaultOf["PurchaseUnit"] EXCEPT !.fields["amount"] = amount ]

-----------------------------------------------------------------------------
(* The AddOrderTracking endpoint descriptor.                               *)

PathPrefix ==
  << "/","v","2","/","c","h","e","c","k","o","u","t","/","o","r","d","e","r","s","/" >>

PathSuffix == << "/","t","r","a","c","k" >>

\* AddOrderTracking::new
AddOrderTrackingNew(order_id, body) ==
  StructOf("AddOrderTracking",
    [ n \in { "order_id", "body" } |-> IF n = "order_id" THEN Str(order_id) ELSE body ])

\* Display of a String inside format!: its characters, unchanged
Display(x) == x.s

\* (deliberately wrong variant) the order id is percent-encoded as a URL path segment
PercentEncoded(s) ==
  Concat([ i \in 1..Len(s) |->
             CASE s[i] = "/" -> << "%", "2", "F" >>
               [] s[i] = "%" -> << "%", "2", "5" >>
               [] s[i] = " " -> << "%", "2", "0" >>
               [] OTHER -> << s[i] >> ])

RelativePathEscaped(self) ==
  Concat(<< PathPrefix, PercentEncoded(Display(self.fields["order_id"])), PathSuffix >>)

\* Endpoint::relative_path
RelativePath(self) ==
  Concat(<< PathPrefix, Display(self.fields["order_id"]), PathSuffix >>)

\* Endpoint::method
Method(self) == "POST"

\* Endpoint::body
Body(self) == self.fields["body"]

-----------------------------------------------------------------------------
(* Inputs.                                                                 *)

\* the structs with a generated builder
BuilderTypes == { ty \in StructNames : StructDecl(ty).derive_builder }

\* the types with derived Serialize and Deserialize
SerdeTypes ==
  EnumNames \cup { ty \in StructNames : StructDecl(ty).derive_serde }

\* texts tried as the wire token of enum e: its wire tokens, the
\* identifiers of its variants, both in lower case, and a foreign token
TokenUniverse(e) ==
  LET E == EnumDecl(e)
  IN  Tokens(e) \cup Range(E.variants)
      \cup { StrToAsciiLowercase(s) : s \in Tokens(e) \cup Range(E.variants) }
      \cup { StrToAsciiUppercase(s) : s \in Range(E.variants) }
      \cup { <<"U","N","K","N","O","W","N">> }

\* the values a value of root type ty starts from
RootValues(ty) ==
  IF ty \in EnumNames
  THEN { Variant(ty, v) : v \in Range(EnumDecl(ty).variants) }
  ELSE { SamplesOf[ty][1] }

\* of the document doc of struct T, the members of the fields that are
\* neither an Option nor serde(default)
RequiredMembers(T, doc) ==
  LET req == { T.fields[i].key : i \in { i \in DOMAIN T.fields :
                 ~T.fields[i].option /\ ~T.fields[i].serde_default } }
  IN  JObject([ m \in Keys(doc) \cap req |-> doc.members[m] ])

\* the document of struct ty that carries only those members
RequiredDocument(ty) == RequiredMembers(StructDecl(ty), Serialize(SamplesOf[ty][1]))

\* doc with member k replaced by, or given as, j
WithMember(doc, k, j) ==
  JObject([ m \in Keys(doc) \cup { k } |-> IF m = k THEN j ELSE doc.members[m] ])

\* the documents received for root type ty: for a struct the document of
\* its minimal value and the one of its required members only, for an enum
\* any text, null or a number
RootDocuments(ty) ==
  IF ty \in EnumNames
  THEN { JString(s) : s \in TokenUniverse(ty) } \cup { JNull, JNumber(0) }
  ELSE { Serialize(SamplesOf[ty][1]), RequiredDocument(ty) }

\* the keys an edit of a document of struct T may put
EditKeys(T) ==
  { T.fields[i].key : i \in DOMAIN T.fields } \cup FieldNames(T) \cup { "unknown_key" }

\* the JSON object doc, carrying one more member under a key no struct
\* declares
WithUnknownKey(doc) ==
  JObject([ m \in Keys(doc) \cup { "unknown_key" } |->
              IF m = "unknown_key" THEN JString(<<"z">>) ELSE doc.members[m] ])

\* purchase unit documents made of the unit document u: units whose
\* payments hold the capture c with a given status text, or the
\* authorization a with or without its status_details
NestedUnits(u, c, a) ==
  { WithMember(u, "payments",
               JObject([ k \in { "captures" } |->
                           JArray(<< WithMember(c, "status", JString(s)) >>) ])) :
      s \in { <<"C","O","M","P","L","E","T","E","D">>,
               <<"c","o","m","p","l","e","t","e","d">>,
               <<"U","N","K","N","O","W","N">> } }
  \cup { WithMember(u, "payments", JObject([ k \in { "authorizations" } |-> JArray(<< d >>) ])) :
           d \in { a, JObject([ k \in Keys(a) \ { "status_details" } |-> a.members[k] ]) } }

\* the documents tried as an element of a Vec of struct kind: the one of its
\* required members and, for a purchase unit, units with nested payments
NestedDocuments(kind) ==
  IF kind = "PurchaseUnit"
  THEN NestedUnits(RequiredDocument("PurchaseUnit"), RequiredDocument("Capture"),
                   RequiredDocument("AuthorizationWithData"))
       \cup { RequiredDocument("PurchaseUnit") }
  ELSE { RequiredDocument(kind) }

\* the JSON values an edit may put under key k of a document of struct T; a
\* field name that is no key is given the values of its field
EditValues(T, k) ==
  LET byKey == { i \in DOMAIN T.fields : T.fields[i].key = k }
      fs == IF byKey # { } THEN byKey
            ELSE { i \in DOMAIN T.fields : T.fields[i].name = k }
      f == T.fields[CHOOSE i \in fs : TRUE]
  IN  { JNull, JNumber(0) }
      \cup (IF fs = { } THEN { JString(<<"z">>) }
            ELSE IF f.vec
            THEN { JArray(<< >>), JArray(<< JNumber(0) >>) }
                 \cup (IF f.kind \in StructNames
                       THEN { JArray(<< d >>) : d \in NestedDocuments(f.kind) }
                       ELSE { })
            ELSE IF f.kind \in EnumNames THEN { JString(s) : s \in TokenUniverse(f.kind) }
            ELSE IF f.kind \in StructNames
            THEN { WithUnknownKey(Serialize(SamplesOf[f.kind][1])) }
            ELSE { JString(<<"z">>) })

\* the ::new helpers of the Amount structs
AmountHelpers ==
  { "orders::Amount::new", "orders::Amount::eur", "orders::Amount::usd",
    "invoice::Amount::new" }

\* texts given as the value of an Amount: decimal numbers written in ways
\* a number type would not keep, and a text that is no number
MoneyTexts ==
  { <<"1","9",".","9","9">>, <<"1","9",".","9","9","0">>, <<"0","0","7">>,
    <<"a","b","c">> }

\* characters of an order id, among them ones an escaping would change
IdChars == { "A", "1", "/", "%", " " }

OrderIds == UNION { [ 1..n -> IdChars ] : n \in 0..MaxIdLen }

\* the tracking bodies a descriptor is made with
TrackingBodies ==
  { SamplesOf["OrderTracking"][1],
    [ SamplesOf["OrderTracking"][1] EXCEPT !.fields["notify_payer"] = Bool(TRUE) ] }

-----------------------------------------------------------------------------
(* The state machine.                                                      *)

Init ==
  /\ bty = "" /\ builder = << >> /\ lastSet = << >> /\ ncalls = 0 /\ built = NoResult
  /\ held = Nothing
  /\ cty = "" /\ val = Nothing /\ ctor = Nothing /\ nassign = 0 /\ wire = Nothing /\ nedits = 0
  /\ decoded = NoResult
  /\ endpoint = Nothing /\ newArgs = Nothing /\ ret = NoResult

\* nothing has been created yet
Idle == bty = "" /\ cty = "" /\ endpoint = Nothing

\* ---- derive_builder

\* TBuilder::default()
NewBuilder(ty) ==
  /\ Idle
  /\ bty' = ty
  /\ builder' = EmptyBuilder(StructDecl(ty))
  /\ lastSet' = [ n \in FieldNames(StructDecl(ty)) |-> Unset ]
  /\ UNCHANGED << ncalls, built, held, codecVars, endpointVars >>

\* the setter calls followed on a builder of ty: one more for Invoice, the
\* one struct with four fields that have no default
SetterBudget(ty) == IF ty = "Invoice" THEN MaxCalls + 1 ELSE MaxCalls

\* builder.field(x): returns the builder
CallSetter(n, x) ==
  /\ bty # "" /\ ncalls < SetterBudget(bty)
  /\ builder' = Setter(builder, n, x)
  /\ lastSet' = [ lastSet EXCEPT ![n] = x ]
  /\ ncalls' = ncalls + 1
  /\ built' = NoResult
  /\ UNCHANGED << bty, held, codecVars, endpointVars >>

\* (deliberately wrong variant) a build() that takes the stored values out
\* of the builder
CallBuildTake ==
  /\ bty # ""
  /\ built' = Build(StructDecl(bty), builder)
  /\ builder' = EmptyBuilder(StructDecl(bty))
  /\ UNCHANGED << bty, lastSet, ncalls, held, codecVars, endpointVars >>

\* builder.build(): returns a Result, the builder is only read
CallBuild ==
  /\ bty # ""
  /\ built' = Build(StructDecl(bty), builder)
  /\ UNCHANGED << bty, builder, lastSet, ncalls, held, codecVars, endpointVars >>

\* let held = builder.build(): the caller holds on to the Result
HoldResult ==
  /\ bty # "" /\ built # NoResult /\ held = Nothing
  /\ held' = [ outcome |-> built, from |-> lastSet ]
  /\ UNCHANGED << bty, builder, lastSet, ncalls, built, codecVars, endpointVars >>

BuilderNext ==
  \/ /\ Idle
     /\ \E ty \in BuilderTypes : NewBuilder(ty)
  \/ /\ bty # "" /\ ncalls < SetterBudget(bty)
     /\ \E n \in DOMAIN builder :
          \E x \in SetterArgs(StructDecl(bty), FieldNamed(StructDecl(bty), n)) : CallSetter(n, x)
  \/ CallBuild

\* ---- serde

\* a value is constructed (a struct literal, or an enum variant)
NewValue(ty, x) ==
  /\ Idle
  /\ cty' = ty /\ val' = x
  /\ UNCHANGED << ctor, nassign, wire, nedits, decoded, builderVars, endpointVars >>

\* Amount::new(currency, value), Amount::eur(value), Amount::usd(value)
NewAmount(fn, currency, value) ==
  /\ Idle
  /\ cty' = (IF fn = "invoice::Amount::new" THEN "InvoiceAmount" ELSE "OrdersAmount")
  /\ val' = CASE fn = "orders::Amount::new" -> OrdersAmountNew(currency, value)
              [] fn = "orders::Amount::eur" -> OrdersAmountEur(value)
              [] fn = "orders::Amount::usd" -> OrdersAmountUsd(value)
              [] fn = "invoice::Amount::new" -> InvoiceAmountNew(currency, value)
  /\ ctor' = [ fn |-> fn, currency |-> currency, value |-> value ]
  /\ UNCHANGED << nassign, wire, nedits, decoded, builderVars, endpointVars >>

\* the amounts PurchaseUnit::new is given
UnitAmounts ==
  { OrdersAmountNew(c, <<"1","9",".","9","9">>) : c \in Range(CommonSamples("Currency")) }
  \cup { [ OrdersAmountNew(Extern("Currency", "EUR"), <<"1">>) EXCEPT
             !.fields["breakdown"] = SamplesOf["OrdersBreakdown"][2] ] }

\* PurchaseUnit::new(amount)
NewPurchaseUnit(amount) ==
  /\ Idle
  /\ cty' = "PurchaseUnit"
  /\ val' = PurchaseUnitNew(amount)
  /\ ctor' = [ fn |-> "PurchaseUnit::new", amount |-> amount ]
  /\ UNCHANGED << nassign, wire, nedits, decoded, builderVars, endpointVars >>

\* value.field = x, before the value is serialized
Assign(n, x) ==
  /\ cty \in StructNames /\ val # Nothing /\ wire = Nothing /\ nassign < MaxAssign
  /\ val' = [ val EXCEPT !.fields[n] = x ]
  /\ nassign' = nassign + 1
  /\ UNCHANGED << cty, ctor, wire, nedits, decoded, builderVars, endpointVars >>

\* serde_json::to_value(&value)
SerializeValue ==
  /\ val # Nothing /\ wire = Nothing
  /\ wire' = Serialize(val)
  /\ UNCHANGED << cty, val, ctor, nassign, nedits, decoded, builderVars, endpointVars >>

\* a document arrives that is to be read as ty
ReceiveDocument(ty, doc) ==
  /\ Idle
  /\ cty' = ty /\ wire' = doc
  /\ UNCHANGED << val, ctor, nassign, nedits, decoded, builderVars, endpointVars >>

\* the received document carries j under key k
PutMember(k, j) ==
  /\ cty \in StructNames /\ val = Nothing /\ wire # Nothing
  /\ decoded = NoResult /\ nedits < MaxEdits
  /\ wire' = JObject([ m \in Keys(wire) \cup { k } |-> IF m = k THEN j ELSE wire.members[m] ])
  /\ nedits' = nedits + 1
  /\ UNCHANGED << cty, val, ctor, nassign, decoded, builderVars, endpointVars >>

\* the received document lacks key k
RemoveMember(k) ==
  /\ cty \in StructNames /\ val = Nothing /\ wire # Nothing
  /\ decoded = NoResult /\ nedits < MaxEdits
  /\ k \in Keys(wire)
  /\ wire' = JObject([ m \in Keys(wire) \ { k } |-> wire.members[m] ])
  /\ nedits' = nedits + 1
  /\ UNCHANGED << cty, val, ctor, nassign, decoded, builderVars, endpointVars >>

\* serde_json::from_value::<cty>(document)
DeserializeDocument ==
  /\ wire # Nothing /\ decoded = NoResult
  /\ decoded' = Deserialize(cty, wire)
  /\ UNCHANGED << cty, val, ctor, nassign, wire, nedits, builderVars, endpointVars >>

CodecNext ==
  \/ /\ Idle
     /\ \E ty \in SerdeTypes : \E x \in RootValues(ty) : NewValue(ty, x)
  \/ /\ Idle
     /\ \E fn \in AmountHelpers : \E c \in Range(SamplesOf["Currency"]) :
          \E v \in MoneyTexts : NewAmount(fn, c, v)
  \/ /\ Idle
     /\ \E a \in UnitAmounts : NewPurchaseUnit(a)
  \/ /\ cty \in StructNames /\ val # Nothing /\ nassign < MaxAssign
     /\ \E n \in FieldNames(StructDecl(cty)) :
          \E x \in FieldSamples(FieldNamed(StructDecl(cty), n)) : Assign(n, x)
  \/ SerializeValue
  \/ /\ Idle
     /\ \E ty \in SerdeTypes : \E doc \in RootDocuments(ty) : ReceiveDocument(ty, doc)
  \/ /\ cty \in StructNames /\ val = Nothing /\ nedits < MaxEdits
     /\ \E k \in EditKeys(StructDecl(cty)) :
          \E j \in EditValues(StructDecl(cty), k) : PutMember(k, j)
  \/ /\ cty \in StructNames /\ val = Nothing /\ nedits < MaxEdits
     /\ \E k \in EditKeys(StructDecl(cty)) : RemoveMember(k)
  \/ DeserializeDocument

\* ---- the endpoint descriptor

\* AddOrderTracking::new(order_id, body)
NewEndpoint(order_id, body) ==
  /\ Idle
  /\ endpoint' = AddOrderTrackingNew(order_id, body)
  /\ newArgs' = [ order_id |-> order_id, body |-> body ]
  /\ UNCHANGED << ret, builderVars, codecVars >>

\* endpoint.relative_path()
CallRelativePath ==
  /\ endpoint # Nothing
  /\ ret' = [ call |-> "relative_path", path |-> RelativePath(endpoint) ]
  /\ UNCHANGED << endpoint, newArgs, builderVars, codecVars >>

\* endpoint.method()
CallMethod ==
  /\ endpoint # Nothing
  /\ ret' = [ call |-> "method", verb |-> Method(endpoint) ]
  /\ UNCHANGED << endpoint, newArgs, builderVars, codecVars >>

\* (deliberately wrong variant) body() moves the body out of the descriptor
CallBodyTake ==
  /\ endpoint # Nothing
  /\ ret' = [ call |-> "body", some |-> Body(endpoint) ]
  /\ endpoint' = [ endpoint EXCEPT !.fields["body"] = DefaultValue("OrderTracking") ]
  /\ UNCHANGED << newArgs, builderVars, codecVars >>

\* endpoint.body()
CallBody ==
  /\ endpoint # Nothing
  /\ ret' = [ call |-> "body", some |-> Body(endpoint) ]
  /\ UNCHANGED << endpoint, newArgs, builderVars, codecVars >>

EndpointNext ==
  \/ /\ Idle
     /\ \E id \in OrderIds : \E b \in TrackingBodies : NewEndpoint(id, b)
  \/ CallRelativePath
  \/ CallMethod
  \/ CallBody

Next == BuilderNext \/ HoldResult \/ CodecNext \/ EndpointNext

Spec == Init /\ [][Next]_vars

\* the two Amount structs
AmountTypes == { "OrdersAmount", "InvoiceAmount" }

\* the builders, values and documents of the two Amount structs alone
AmountNext ==
  \/ BuilderNext /\ bty' \in AmountTypes
  \/ CodecNext /\ cty' \in AmountTypes

SpecAmount == Init /\ [][AmountNext]_vars

\* the builders of the two Item structs and of AddOrderTracking
HeldTypes == { "OrdersItem", "InvoiceItem", "AddOrderTracking" }

\* those builders alone, with a caller that holds on to a Result of build()
HeldNext ==
  \/ BuilderNext /\ bty' \in HeldTypes
  \/ HoldResult

SpecHeld == Init /\ [][HeldNext]_vars

\* the builders alone, the values and documents alone, the descriptor alone
SpecBuilder == Init /\ [][BuilderNext]_vars

SpecCodec == Init /\ [][CodecNext]_vars

SpecEndpoint == Init /\ [][EndpointNext]_vars

-----------------------------------------------------------------------------
(* Properties of the endpoint descriptor.                                  *)

\* C1: for every order id s and tracking body t,
\* AddOrderTracking::new(s, t).relative_path() is "/v2/checkout/orders/",
\* then s character for character, then "/track"; and method() is POST.
C1_PathInterpolation ==
  /\ (ret # NoResult /\ ret.call = "relative_path") =>
       LET p == ret.path
           s == newArgs.order_id
       IN  /\ Len(p) = 20 + Len(s) + 6
           /\ SubSeq(p, 1, 20) =
                << "/","v","2","/","c","h","e","c","k","o","u","t","/",
                   "o","r","d","e","r","s","/" >>
           /\ SubSeq(p, 21, 20 + Len(s)) = s
           /\ SubSeq(p, 21 + Len(s), Len(p)) = << "/","t","r","a","c","k" >>
  /\ (ret # NoResult /\ ret.call = "method") => ret.verb = "POST"

\* C1 witness: the path of a descriptor whose order id holds a slash and a
\* percent sign has been asked for
C1_Witness ==
  /\ ret # NoResult /\ ret.call = "relative_path"
  /\ newArgs.order_id = << "/", "%" >>

-----------------------------------------------------------------------------
(* Properties of serialization.                                            *)

\* C2: whenever a struct has been encoded, every Option field of it that is
\* None has no key in the JSON object (the key is absent, not null).
C2_NoneIsOmitted ==
  (cty \in StructNames /\ val # Nothing /\ wire # Nothing) =>
    \A n \in OptionFields(StructDecl(cty)) :
      val.fields[n] = None => FieldNamed(StructDecl(cty), n).key \notin Keys(wire)

\* C2 witness: a PhoneNumber without a country code has been encoded and
\* the object holds the key country_code, with null
C2_Witness ==
  /\ cty = "PhoneNumber" /\ val # Nothing /\ wire # Nothing
  /\ val.fields["country_code"] = None
  /\ "country_code" \in Keys(wire)
  /\ wire.members["country_code"] = JNull

\* the characters of an upper-snake-case token
ScreamingChars == Range(UpperCase) \cup Range(Digits) \cup { "_" }

\* C3: every enum value is written as a token of upper-case letters, digits
\* and underscores, and a text is read as an enum value only if it is such
\* a token.
C3_EnumsAreScreaming ==
  cty \in EnumNames =>
    /\ (val # Nothing /\ wire # Nothing) =>
         wire.j = "string" /\ Range(wire.str) \subseteq ScreamingChars
    /\ (decoded # NoResult /\ decoded.ok) =>
         wire.j = "string" /\ Range(wire.str) \subseteq ScreamingChars

\* C3 witness: DisbursementMode::Instant has been written, as "Instant"
C3_Witness ==
  /\ cty = "DisbursementMode"
  /\ val = Variant("DisbursementMode", <<"I","n","s","t","a","n","t">>)
  /\ wire = JString(<<"I","n","s","t","a","n","t">>)

-----------------------------------------------------------------------------
(* Properties of the builders.                                             *)

\* the fields the last setter calls stored to
FieldsSet == { n \in DOMAIN lastSet : lastSet[n] # Unset }

\* C4: build() on the orders Item builder, after exactly name, quantity and
\* unit_amount were set, returns Ok with every Option field None.
C4_ItemRequiredOnly ==
  (bty = "OrdersItem" /\ built # NoResult
   /\ FieldsSet = { "name", "quantity", "unit_amount" }) =>
    /\ built.ok
    /\ \A n \in { "description", "sku", "url", "category", "image_url", "tax", "upc" } :
         built.v.fields[n] = None

\* C4 witness: build() on such a builder has reported description
C4_Witness ==
  /\ bty = "OrdersItem" /\ built # NoResult
  /\ FieldsSet = { "name", "quantity", "unit_amount" }
  /\ built = Err("UninitializedField", "description")

\* C5: build() on the builder of either Item, when name was never set,
\* returns an Err (an uninitialized-field error) and no Item, whatever else
\* was set.
C5_ItemWithoutName ==
  (bty \in { "OrdersItem", "InvoiceItem" } /\ built # NoResult
   /\ "name" \notin FieldsSet) =>
    /\ ~built.ok
    /\ built.err = "UninitializedField"

\* C5 witness: build() has answered on an invoice Item builder that was given
\* a quantity and a unit amount but no name
C5_Witness ==
  /\ bty = "InvoiceItem" /\ built # NoResult
  /\ FieldsSet = { "quantity", "unit_amount" }

\* C6: build() on any builder reports an error when a field that is not an
\* Option was never set.
C6_RequiredNeverDefaulted ==
  (bty # "" /\ built # NoResult) =>
    \A n \in RequiredFields(StructDecl(bty)) :
      n \notin FieldsSet => ~built.ok

\* C6 witness: build() on a PurchaseUnit builder that was never given an
\* amount has returned a PurchaseUnit, with the default amount
C6_Witness ==
  /\ bty = "PurchaseUnit" /\ built # NoResult
  /\ "amount" \notin FieldsSet
  /\ built.ok
  /\ built.v.fields["amount"] = DefaultValue("OrdersAmount")

\* C7: build() on the OrderTracking builder, after exactly tracking_number,
\* carrier and capture_id were set, returns Ok with carrier_name_other,
\* notify_payer and items None.
C7_TrackingRequiredOnly ==
  (bty = "OrderTracking" /\ built # NoResult
   /\ FieldsSet = { "tracking_number", "carrier", "capture_id" }) =>
    /\ built.ok
    /\ \A n \in { "carrier_name_other", "notify_payer", "items" } :
         built.v.fields[n] = None

\* C7 witness: build() on such a builder has reported carrier_name_other
C7_Witness ==
  /\ bty = "OrderTracking" /\ built # NoResult
  /\ FieldsSet = { "tracking_number", "carrier", "capture_id" }
  /\ built = Err("UninitializedField", "carrier_name_other")

\* the fields of struct T that build() cannot fill by itself
MustBeSet(T) ==
  { T.fields[i].name : i \in { k \in DOMAIN T.fields :
      ~T.builder_default /\ ~T.fields[k].builder_default } }

\* C8: the answer of build() is a function of which fields were set and of
\* the last value given to each: it is Ok exactly when no field that must be
\* set is missing, every field that was set then holds the last value it
\* was given, and an Err names a missing field.  Every setter call stores
\* its argument, complete or not: the builder holds the last value given
\* to each field.
C8_ValidationAtBuild ==
  bty # "" =>
    LET missing == MustBeSet(StructDecl(bty)) \ FieldsSet
    IN  /\ builder = lastSet
        /\ built # NoResult =>
             /\ built.ok <=> missing = { }
             /\ built.ok => \A n \in FieldsSet : built.v.fields[n] = lastSet[n]
             /\ ~built.ok => built.err = "UninitializedField" /\ built.at \in missing

\* C8 witness: build() succeeded after three setter calls of which two were
\* on the same field
C8_Witness ==
  /\ bty # "" /\ ncalls = 3 /\ built # NoResult /\ built.ok
  /\ Cardinality(FieldsSet) = 2

-----------------------------------------------------------------------------
(* Properties of deserialization.                                          *)

\* the wire tokens of the order status and the variants they name
OrderStatusTokens ==
  { << <<"C","R","E","A","T","E","D">>, <<"C","r","e","a","t","e","d">> >>,
    << <<"S","A","V","E","D">>, <<"S","a","v","e","d">> >>,
    << <<"A","P","P","R","O","V","E","D">>, <<"A","p","p","r","o","v","e","d">> >>,
    << <<"V","O","I","D","E","D">>, <<"V","o","i","d","e","d">> >>,
    << <<"C","O","M","P","L","E","T","E","D">>, <<"C","o","m","p","l","e","t","e","d">> >> }

\* the document of an Order that is well-formed but for its status, s
OrderDocWith(s) ==
  LET doc == Serialize(SamplesOf["Order"][1])
  IN  JObject([ k \in Keys(doc) |-> IF k = "status" THEN s ELSE doc.members[k] ])

\* C9: decoding an Order document succeeds, with the matching status, when
\* its status is one of the five tokens, and fails for every other text in
\* its place; a decoded Order never has a status its document did not name.
C9_OrderStatusClosed ==
  (cty = "Order" /\ val = Nothing /\ decoded # NoResult) =>
    /\ \A s \in TokenUniverse("OrderStatus") :
         wire = OrderDocWith(JString(s)) =>
           (decoded.ok <=> \E p \in OrderStatusTokens : p[1] = s)
    /\ ("status" \in Keys(wire) /\ wire.members["status"].j = "string"
        /\ ~\E p \in OrderStatusTokens : p[1] = wire.members["status"].str)
         => ~decoded.ok
    /\ decoded.ok =>
         /\ "status" \in Keys(wire)
         /\ wire.members["status"].j = "string"
         /\ \E p \in OrderStatusTokens :
              /\ p[1] = wire.members["status"].str
              /\ decoded.v.fields["status"] = Variant("OrderStatus", p[2])

\* C9 witness: an Order document whose status is the lower-case text
\* "created" has been decoded
C9_Witness ==
  /\ cty = "Order" /\ val = Nothing /\ decoded # NoResult
  /\ wire = OrderDocWith(JString(<<"c","r","e","a","t","e","d">>))

\* the wire tokens of the invoice status and the variants they name
InvoiceStatusTokens ==
  { << <<"D","R","A","F","T">>, <<"D","r","a","f","t">> >>,
    << <<"S","E","N","T">>, <<"S","e","n","t">> >>,
    << <<"S","C","H","E","D","U","L","E","D">>, <<"S","c","h","e","d","u","l","e","d">> >>,
    << <<"P","A","I","D">>, <<"P","a","i","d">> >>,
    << <<"M","A","R","K","E","D","_","A","S","_","P","A","I","D">>,
       <<"M","a","r","k","e","d","A","s","P","a","i","d">> >>,
    << <<"C","A","N","C","E","L","L","E","D">>, <<"C","a","n","c","e","l","l","e","d">> >>,
    << <<"R","E","F","U","N","D","E","D">>, <<"R","e","f","u","n","d","e","d">> >>,
    << <<"P","A","R","T","I","A","L","L","Y","_","P","A","I","D">>,
       <<"P","a","r","t","i","a","l","l","y","P","a","i","d">> >>,
    << <<"P","A","R","T","I","A","L","L","Y","_","R","E","F","U","N","D","E","D">>,
       <<"P","a","r","t","i","a","l","l","y","R","e","f","u","n","d","e","d">> >>,
    << <<"M","A","R","K","E","D","_","A","S","_","R","E","F","U","N","D","E","D">>,
       <<"M","a","r","k","e","d","A","s","R","e","f","u","n","d","e","d">> >>,
    << <<"U","N","P","A","I","D">>, <<"U","n","p","a","i","d">> >>,
    << <<"P","A","Y","M","E","N","T","_","P","E","N","D","I","N","G">>,
       <<"P","a","y","m","e","n","t","P","e","n","d","i","n","g">> >> }

\* C10: the invoice Status has exactly the 12 tokens of the table, one per
\* variant: a variant is written as its token, a text is read as a Status
\* exactly when it is one of the tokens and then as the variant of that
\* token, and an Invoice document whose status is any other text is not
\* decoded.
C10_InvoiceStatusClosed ==
  /\ Cardinality(InvoiceStatusTokens) = 12
  /\ Cardinality({ p[1] : p \in InvoiceStatusTokens }) = 12
  /\ { p[2] : p \in InvoiceStatusTokens } = Range(EnumDecl("Status").variants)
  /\ (cty = "Status" /\ val # Nothing /\ wire # Nothing) =>
       \E p \in InvoiceStatusTokens : p[2] = val.variant /\ wire = JString(p[1])
  /\ (cty = "Status" /\ decoded # NoResult /\ wire.j = "string") =>
       /\ decoded.ok <=> \E p \in InvoiceStatusTokens : p[1] = wire.str
       /\ decoded.ok =>
            \E p \in InvoiceStatusTokens :
              p[1] = wire.str /\ decoded.v = Variant("Status", p[2])
  /\ (cty = "Invoice" /\ val = Nothing /\ decoded # NoResult
      /\ "status" \in Keys(wire) /\ wire.members["status"].j = "string"
      /\ ~\E p \in InvoiceStatusTokens : p[1] = wire.members["status"].str)
       => ~decoded.ok

\* C10 witness: MarkedAsRefunded has been written and read back
C10_Witness ==
  /\ cty = "Status" /\ decoded # NoResult /\ decoded.ok
  /\ val = Variant("Status", <<"M","a","r","k","e","d","A","s","R","e","f","u","n","d","e","d">>)
  /\ decoded.v = val

\* the keys struct T declares
DeclaredKeys(T) == { T.fields[i].key : i \in DOMAIN T.fields }

RECURSIVE DeclaredPart(_, _)
\* the JSON object doc read as struct ty, without the members that ty, or
\* the struct of a nested object, does not declare
DeclaredPart(ty, doc) ==
  LET T == StructDecl(ty)
      fieldOf(k) == T.fields[CHOOSE i \in DOMAIN T.fields : T.fields[i].key = k]
      part(f, j) ==
        IF f.kind \notin StructNames THEN j
        ELSE IF j.j = "object" /\ ~f.vec THEN DeclaredPart(f.kind, j)
        ELSE IF j.j = "array" /\ f.vec
        THEN JArray([ n \in DOMAIN j.elems |->
                        IF j.elems[n].j = "object"
                        THEN DeclaredPart(f.kind, j.elems[n]) ELSE j.elems[n] ])
        ELSE j
  IN  JObject([ k \in Keys(doc) \cap DeclaredKeys(T) |-> part(fieldOf(k), doc.members[k]) ])

\* C11: decoding an object gives what decoding it without the keys its type
\* and the types of its nested objects do not declare gives; when what is
\* left is a complete document of the type, decoding succeeds with the
\* value of that document.
C11_UnknownKeysIgnored ==
  (cty \in StructNames /\ val = Nothing /\ decoded # NoResult /\ wire.j = "object") =>
    /\ decoded = Deserialize(cty, DeclaredPart(cty, wire))
    /\ DeclaredPart(cty, wire) = Serialize(SamplesOf[cty][1]) =>
         decoded = Ok(SamplesOf[cty][1])

\* C11 witness: an Invoice document with every required member, and one
\* undeclared key inside its detail object, has been decoded
C11_Witness ==
  /\ cty = "Invoice" /\ val = Nothing /\ decoded # NoResult
  /\ "detail" \in Keys(wire) /\ wire.members["detail"].j = "object"
  /\ "unknown_key" \in Keys(wire.members["detail"])
  /\ DeclaredPart("Invoice", wire) = Serialize(SamplesOf["Invoice"][1])

\* whether the Order document doc holds a well-formed id, links, status
OrderIdOk(doc) == "id" \in Keys(doc) /\ doc.members["id"].j = "string"

OrderLinksOk(doc) ==
  /\ "links" \in Keys(doc)
  /\ doc.members["links"].j = "array"
  /\ \A i \in DOMAIN doc.members["links"].elems :
       LET e == doc.members["links"].elems[i]
       IN  e.j = "extern" /\ e.of = "LinkDescription"

OrderStatusOk(doc) ==
  /\ "status" \in Keys(doc)
  /\ doc.members["status"].j = "string"
  /\ \E p \in OrderStatusTokens : p[1] = doc.members["status"].str

\* C12: decoding an Order document returns an Err when id, links or status
\* is missing or ill-typed, and returns Ok when the document holds exactly
\* those three, well-formed; every Option field of the Order is then None.
C12_OrderRequiredMembers ==
  (cty = "Order" /\ val = Nothing /\ decoded # NoResult /\ wire.j = "object") =>
    /\ ~(OrderIdOk(wire) /\ OrderLinksOk(wire) /\ OrderStatusOk(wire)) =>
         /\ ~decoded.ok
         /\ decoded.err \in { "missing field", "invalid type", "invalid value",
                             "unknown variant" }
    /\ (OrderIdOk(wire) /\ OrderLinksOk(wire) /\ OrderStatusOk(wire)
        /\ Keys(wire) \cap DeclaredKeys(Order) = { "id", "links", "status" }) =>
         /\ decoded.ok
         /\ \A n \in OptionFields(Order) : decoded.v.fields[n] = None
         /\ decoded.v.fields["id"] = Str(wire.members["id"].str)

\* C12 witness: an Order document without links has been refused
C12_Witness ==
  /\ cty = "Order" /\ val = Nothing /\ decoded # NoResult
  /\ Keys(wire) = { "id", "status" }
  /\ decoded = Err("missing field", "links")

-----------------------------------------------------------------------------
(* Properties of a round trip: a value, written and read back.             *)

\* C13: a value that was written and read back is read back as itself,
\* field by field.
C13_RoundTrip ==
  (val # Nothing /\ wire # Nothing /\ decoded # NoResult) => decoded = Ok(val)

\* C13 witness: a Capture whose processor_response is Some(Value::Null) has
\* been written and read back, and came back with processor_response None
C13_Witness ==
  /\ cty = "Capture" /\ val # Nothing /\ decoded # NoResult /\ decoded.ok
  /\ val.fields["processor_response"] = Json(JNull)
  /\ decoded.v.fields["processor_response"] = None
  /\ \A n \in FieldNames(Capture) \ { "processor_response" } :
       decoded.v.fields[n] = val.fields[n]

\* the fields of struct T that hold an opaque JSON value
OpaqueFields(T) ==
  { T.fields[i].name : i \in { k \in DOMAIN T.fields : T.fields[k].kind = "Value" } }

\* C20: an opaque JSON field that is present, whatever JSON value it holds,
\* is present again after the value was written and read back; and an
\* opaque field that is None is never written as null.
C20_OpaquePresence ==
  (cty \in StructNames /\ val # Nothing /\ wire # Nothing) =>
    \A n \in OpaqueFields(StructDecl(cty)) :
      LET k == FieldNamed(StructDecl(cty), n).key
      IN  /\ val.fields[n] = None => (k \notin Keys(wire) \/ wire.members[k] # JNull)
          /\ (decoded # NoResult /\ val.fields[n] # None) =>
               decoded.ok /\ decoded.v.fields[n] # None

\* C20 witness: a SupplementaryData whose level_2 is Some(Value::Null) has
\* been written, as "level_2": null, and read back with level_2 None
C20_Witness ==
  /\ cty = "SupplementaryData" /\ val # Nothing /\ decoded # NoResult
  /\ val.fields["level_2"] = Json(JNull)
  /\ wire.members["level_2"] = JNull
  /\ decoded.ok /\ decoded.v.fields["level_2"] = None

-----------------------------------------------------------------------------
(* Properties of the Amount structs.                                       *)

\* the currency Amount helper fn gives an Amount, when asked for currency c
HelperCurrency(fn, c) ==
  CASE fn = "orders::Amount::eur" -> Extern("Currency", "EUR")
    [] fn = "orders::Amount::usd" -> Extern("Currency", "USD")
    [] OTHER -> c

\* C14: Amount::new stores the text it is given as the value, character
\* for character; an Amount is written with its value as a JSON string of
\* the same characters and read back with the same value.
C14_MoneyFidelity ==
  (cty \in { "OrdersAmount", "InvoiceAmount" } /\ val # Nothing) =>
    /\ (ctor # Nothing /\ nassign = 0) =>
         /\ val.fields["value"] = Str(ctor.value)
         /\ val.fields["currency_code"] = HelperCurrency(ctor.fn, ctor.currency)
         /\ val.fields["breakdown"] = None
    /\ wire # Nothing =>
         /\ "value" \in Keys(wire)
         /\ wire.members["value"] = JString(val.fields["value"].s)
    /\ decoded # NoResult =>
         /\ decoded.ok
         /\ decoded.v.fields["value"] = val.fields["value"]

\* C14 witness: orders Amount::new was given "19.990" and the Amount has
\* been written and read back
C14_Witness ==
  /\ cty = "OrdersAmount" /\ ctor # Nothing /\ nassign = 0
  /\ ctor.fn = "orders::Amount::new"
  /\ ctor.value = <<"1","9",".","9","9","0">>
  /\ decoded # NoResult /\ decoded.ok
  /\ decoded.v.fields["value"] = Str(<<"1","9",".","9","9","0">>)

-----------------------------------------------------------------------------
(* Properties of the endpoint descriptor's accessors.                      *)

\* C15: whatever accessors were called, the descriptor still holds exactly
\* the order id and the body it was made with and nothing else (no query);
\* body() returns the body it was made with, relative_path() and method()
\* return what they return on a descriptor just made, and nothing outside
\* the descriptor has changed.
C15_AccessorsArePure ==
  endpoint # Nothing =>
    /\ DOMAIN endpoint.fields = { "order_id", "body" }
    /\ endpoint.fields["order_id"] = Str(newArgs.order_id)
    /\ endpoint.fields["body"] = newArgs.body
    /\ (ret # NoResult /\ ret.call = "body") =>
         ret.some = newArgs.body /\ ret.some # None
    /\ (ret # NoResult /\ ret.call = "relative_path") =>
         ret.path = PathPrefix \o newArgs.order_id \o PathSuffix
    /\ (ret # NoResult /\ ret.call = "method") => ret.verb = "POST"
    /\ bty = "" /\ built = NoResult
    /\ cty = "" /\ val = Nothing /\ wire = Nothing /\ decoded = NoResult

\* C15 witness: body() has returned the body of a descriptor made with a
\* tracking that notifies the payer
C15_Witness ==
  /\ endpoint # Nothing /\ ret # NoResult /\ ret.call = "body"
  /\ newArgs.body.fields["notify_payer"] = Bool(TRUE)
  /\ ret.some = newArgs.body

-----------------------------------------------------------------------------
(* Properties of encoding.                                                 *)

RECURSIVE IsJson(_)
\* whether j is a JSON document (and not an error)
IsJson(j) ==
  CASE j.j = "null" -> TRUE
    [] j.j = "string" -> DOMAIN j.str = 1..Len(j.str)
    [] j.j = "bool" -> j.bit \in BOOLEAN
    [] j.j = "number" -> j.num \in Int
    [] j.j = "extern" -> j.of \in CommonKinds
    [] j.j = "array" -> \A i \in DOMAIN j.elems : IsJson(j.elems[i])
    [] j.j = "object" -> \A k \in Keys(j) : IsJson(j.members[k])
    [] OTHER -> FALSE

\* the types whose encoding has no error to report: texts, booleans,
\* integers, times, dates, JSON values, the types of common.rs, unit enums
\* and the structs that derive Serialize
EncodableKinds == LeafKinds \cup CommonKinds \cup SerdeTypes

\* C16: every field of the struct of a value has a type whose encoding
\* reports no error, and whatever value was made (a literal, a
\* ::new helper, assignments to fields), encoding it gives a JSON document:
\* an object with a member for every field that is not an Option, or the
\* text of an enum variant.
C16_EncodingIsTotal ==
  /\ (val # Nothing /\ cty \in StructNames) =>
       \A i \in DOMAIN StructDecl(cty).fields :
         StructDecl(cty).fields[i].kind \in EncodableKinds
  /\ (val # Nothing /\ wire # Nothing) =>
       /\ IsJson(wire)
       /\ cty \in EnumNames => wire.j = "string"
       /\ cty \in StructNames =>
            /\ wire.j = "object"
            /\ \A n \in RequiredFields(StructDecl(cty)) :
                 FieldNamed(StructDecl(cty), n).key \in Keys(wire)

\* C16 witness: a PaymentTerm made with no due date, whose None is written
\* and not skipped, has been encoded
C16_Witness ==
  /\ cty = "PaymentTerm" /\ val # Nothing /\ wire # Nothing
  /\ val.fields["due_date"] = None
  /\ "due_date" \in Keys(wire)

\* whether the Amount x has a breakdown whose item total is not its value
\* (the item total of the model's Money is the text of its id)
TotalsDiffer(x) ==
  /\ x.fields["breakdown"] # None
  /\ x.fields["breakdown"].fields["item_total"] # None
  /\ x.fields["value"].s # << x.fields["breakdown"].fields["item_total"].id >>

\* C18: no step looks at the value of an Amount or at the totals of its
\* breakdown.  build() answers Ok exactly when the fields it cannot default
\* were set, with value and breakdown as they were given; an Amount is
\* written with the characters of its value and every total of its
\* breakdown, and is read back as itself.
C18_TotalsNotChecked ==
  /\ (bty \in AmountTypes /\ built # NoResult) =>
       /\ built.ok <=> MustBeSet(StructDecl(bty)) \subseteq FieldsSet
       /\ built.ok =>
            /\ built.v.fields["value"] = lastSet["value"]
            /\ built.v.fields["breakdown"] =
                 (IF lastSet["breakdown"] = Unset THEN None ELSE lastSet["breakdown"])
  /\ (cty \in AmountTypes /\ val # Nothing /\ wire # Nothing) =>
       /\ wire.members["value"] = JString(val.fields["value"].s)
       /\ val.fields["breakdown"] # None =>
            /\ "breakdown" \in Keys(wire)
            /\ LET b == val.fields["breakdown"].fields["item_total"]
                   w == wire.members["breakdown"]
               IN  IF b = None THEN "item_total" \notin Keys(w)
                   ELSE w.members["item_total"] = JExtern("Money", b.id)
       /\ decoded # NoResult => decoded = Ok(val)

\* C18 witness: an Amount whose value is the text abc, with a breakdown
\* whose item total is 1, has been written and read back
C18_Witness ==
  /\ cty \in AmountTypes /\ val # Nothing /\ decoded # NoResult /\ decoded.ok
  /\ val.fields["value"] = Str(<<"a","b","c">>)
  /\ TotalsDiffer(val)
  /\ decoded.v = val

-----------------------------------------------------------------------------
(* Properties of the variants with upper-case names.                       *)

\* the variants named in capitals, by enum
CapitalVariants ==
  { << "TaxIdType", <<"B","R","_","C","P","F">> >>,
    << "TaxIdType", <<"B","R","_","C","N","P","J">> >>,
    << "CardBrand", <<"J","C","B">> >> }

\* C19: BR_CPF, BR_CNPJ and JCB are written with exactly the characters of
\* their names, and a text of exactly those characters is read as the
\* variant.
C19_CapitalNamesKept ==
  \A p \in CapitalVariants :
    cty = p[1] =>
      /\ (val = Variant(p[1], p[2]) /\ wire # Nothing) => wire = JString(p[2])
      /\ (wire = JString(p[2]) /\ decoded # NoResult) =>
           decoded = Ok(Variant(p[1], p[2]))

\* C19 witness: TaxIdType::BR_CPF has been written, as "B_R__C_P_F"
C19_Witness ==
  /\ cty = "TaxIdType"
  /\ val = Variant("TaxIdType", <<"B","R","_","C","P","F">>)
  /\ wire = JString(<<"B","_","R","_","_","C","_","P","_","F">>)


-----------------------------------------------------------------------------
(* Properties of decoding nested documents.                                *)

CaptureStatusTokens ==
  { <<"C","O","M","P","L","E","T","E","D">>, <<"D","E","C","L","I","N","E","D">>,
    <<"P","A","R","T","I","A","L","L","Y","_","R","E","F","U","N","D","E","D">>,
    <<"P","E","N","D","I","N","G">>, <<"R","E","F","U","N","D","E","D">> }

\* doc carries exactly one purchase unit, whose payments hold exactly one
\* element under key k
HasNested(doc, k) ==
  /\ doc.j = "object" /\ "purchase_units" \in Keys(doc)
  /\ doc.members["purchase_units"].j = "array"
  /\ Len(doc.members["purchase_units"].elems) = 1
  /\ LET u == doc.members["purchase_units"].elems[1]
     IN  /\ u.j = "object" /\ "payments" \in Keys(u)
         /\ u.members["payments"].j = "object"
         /\ Keys(u.members["payments"]) = { k }
         /\ u.members["payments"].members[k].j = "array"
         /\ Len(u.members["payments"].members[k].elems) = 1

\* that element
Nested(doc, k) ==
  doc.members["purchase_units"].elems[1].members["payments"].members[k].elems[1]

\* doc without its purchase units
WithoutUnits(doc) ==
  JObject([ m \in Keys(doc) \ { "purchase_units" } |-> doc.members[m] ])

\* C21: decoding an Order is all-or-nothing over its nesting. An Order
\* document whose purchase unit holds a capture with a status text outside
\* the closed set, or whose links hold an ill-formed element, decodes to an
\* Err that carries no Order; an otherwise well-formed Order document whose
\* nested capture has a status of the closed set decodes to an Order holding
\* that capture; and a decoded Order implies that every element of every
\* list of the document decodes.
C21_AllOrNothing ==
  (cty = "Order" /\ val = Nothing /\ decoded # NoResult /\ wire.j = "object") =>
    /\ ~decoded.ok => DOMAIN decoded = { "ok", "err", "at" }
    /\ HasNested(wire, "captures") =>
         LET c == Nested(wire, "captures")
             good == c.members["status"].str \in CaptureStatusTokens
         IN  /\ ~good => ~decoded.ok
             /\ (good /\ WithoutUnits(wire) \in RootDocuments("Order")) =>
                  /\ decoded.ok
                  /\ Len(decoded.v.fields["purchase_units"].items[1]
                           .fields["payments"].fields["captures"].items) = 1
    /\ ("links" \in Keys(wire) /\ wire.members["links"] = JArray(<< JNumber(0) >>)) =>
         ~decoded.ok
    /\ decoded.ok =>
         \A i \in DOMAIN Order.fields :
           LET f == Order.fields[i]
           IN  (f.vec /\ f.key \in Keys(wire) /\ wire.members[f.key].j = "array") =>
                 \A e \in Range(wire.members[f.key].elems) : Deserialize(f.kind, e).ok

\* C21 witness: an Order document whose nested capture has the status text
\* UNKNOWN has been refused
C21_Witness ==
  /\ cty = "Order" /\ val = Nothing /\ decoded # NoResult
  /\ HasNested(wire, "captures")
  /\ Nested(wire, "captures").members["status"].str = <<"U","N","K","N","O","W","N">>
  /\ ~decoded.ok /\ decoded.at = "purchase_units"

AuthorizationStatusTokens ==
  { <<"C","R","E","A","T","E","D">>, <<"C","A","P","T","U","R","E","D">>,
    <<"D","E","N","I","E","D">>, <<"E","X","P","I","R","E","D">>,
    <<"P","A","R","T","I","A","L","L","Y","_","E","X","P","I","R","E","D">>,
    <<"P","A","R","T","I","A","L","L","Y","_","C","A","P","T","U","R","E","D">>,
    <<"V","O","I","D","E","D">>, <<"P","E","N","D","I","N","G">> }

\* doc carries a status of the closed set and a well-formed status_details
AuthorizationRequiredOk(doc) ==
  /\ "status" \in Keys(doc)
  /\ doc.members["status"].j = "string"
  /\ doc.members["status"].str \in AuthorizationStatusTokens
  /\ "status_details" \in Keys(doc)
  /\ doc.members["status_details"].j = "extern"
  /\ doc.members["status_details"].of = "AuthorizationStatusDetails"

\* C22: an AuthorizationWithData document decodes only if status and
\* status_details are present and well-formed; when they are, and every
\* other declared member is missing or null, it decodes and every other
\* field is None. An Order document holding an authorization without
\* status_details is refused, and one holding an authorization of just
\* status and status_details is accepted.
C22_AuthorizationRequired ==
  /\ (cty = "AuthorizationWithData" /\ val = Nothing /\ decoded # NoResult
      /\ wire.j = "object") =>
       /\ ~AuthorizationRequiredOk(wire) => ~decoded.ok
       /\ (/\ AuthorizationRequiredOk(wire)
           /\ \A k \in (Keys(wire) \cap DeclaredKeys(AuthorizationWithData))
                         \ { "status", "status_details" } : wire.members[k] = JNull) =>
            /\ decoded.ok
            /\ \A n \in FieldNames(AuthorizationWithData) \ { "status", "status_details" } :
                 decoded.v.fields[n] = None
  /\ (cty = "Order" /\ val = Nothing /\ decoded # NoResult /\ wire.j = "object"
      /\ HasNested(wire, "authorizations")) =>
       LET a == Nested(wire, "authorizations")
       IN  /\ "status_details" \notin Keys(a) => ~decoded.ok
           /\ (Keys(a) = { "status", "status_details" }
               /\ WithoutUnits(wire) \in RootDocuments("Order")) => decoded.ok

\* C22 witness: an authorization document of status and status_details only
\* has been decoded, every other field None
C22_Witness ==
  /\ cty = "AuthorizationWithData" /\ val = Nothing /\ decoded # NoResult
  /\ Keys(wire) = { "status", "status_details" }
  /\ decoded.ok /\ decoded.v.fields["id"] = None

\* an Order document whose authorization lacks status_details has been refused
C22_NestedWitness ==
  /\ cty = "Order" /\ val = Nothing /\ decoded # NoResult
  /\ HasNested(wire, "authorizations")
  /\ "status_details" \notin Keys(Nested(wire, "authorizations"))
  /\ decoded = Err("missing field", "purchase_units")

-----------------------------------------------------------------------------
(* Properties of PaymentCollection.                                        *)

PaymentLists == { "authorizations", "captures", "refunds" }

\* the three lists of a PaymentCollection: a missing key decodes to the
\* empty list, encoding writes all three keys, an empty list as the empty
\* array, and the empty object decodes to a value that encodes to three
\* empty arrays
PaymentListsDefault ==
  cty = "PaymentCollection" =>
    /\ (val = Nothing /\ decoded # NoResult /\ decoded.ok /\ wire.j = "object") =>
         \A k \in PaymentLists \ Keys(wire) : decoded.v.fields[k] = VecOf(<< >>)
    /\ (val # Nothing /\ wire # Nothing) =>
         /\ Keys(wire) = PaymentLists
         /\ \A k \in PaymentLists :
              /\ wire.members[k].j = "array"
              /\ Len(wire.members[k].elems) = Len(val.fields[k].items)
    /\ (val = Nothing /\ decoded # NoResult /\ wire = JObject(<< >>)) =>
         /\ decoded.ok
         /\ Serialize(decoded.v) = JObject([ k \in PaymentLists |-> JArray(<< >>) ])

\* C23: in a PaymentCollection, a missing authorizations, captures or
\* refunds key decodes to the empty list; encoding always writes all three
\* keys, an empty list as the empty array; a PaymentCollection that was
\* written and read back is read back as itself; and the empty object
\* decodes to a value that encodes to three empty arrays.
C23_PaymentCollectionLists ==
  /\ PaymentListsDefault
  /\ (cty = "PaymentCollection" /\ val # Nothing /\ decoded # NoResult) =>
       decoded = Ok(val)

\* C23 witness: a PaymentCollection holding a capture whose
\* processor_response is Some(Value::Null) has been written with all three
\* keys and read back holding a capture whose processor_response is None
C23_Witness ==
  /\ cty = "PaymentCollection" /\ val # Nothing /\ decoded # NoResult /\ decoded.ok
  /\ Keys(wire) = PaymentLists
  /\ Len(val.fields["captures"].items) = 1
  /\ val.fields["captures"].items[1].fields["processor_response"] = Json(JNull)
  /\ decoded.v.fields["captures"].items[1].fields["processor_response"] = None
  /\ decoded.v.fields["authorizations"] = val.fields["authorizations"]
  /\ decoded.v.fields["refunds"] = val.fields["refunds"]

\* the empty object has been read as a PaymentCollection of three empty lists
PaymentListsWitness ==
  /\ cty = "PaymentCollection" /\ val = Nothing /\ wire = JObject(<< >>)
  /\ decoded = Ok(Minimal("PaymentCollection"))

-----------------------------------------------------------------------------
(* Properties of the wire keys.                                            *)

\* the fields declared with #[serde(rename = "type")], by struct
RenamedField ==
  [ ty \in { "ShippingDetail", "CardResponse" } |->
      IF ty = "ShippingDetail" THEN "shipping_type" ELSE "card_type" ]

\* C24: shipping_type of ShippingDetail and card_type of CardResponse are
\* written under the key "type" and never under their own name, and are read
\* from the key "type" only: a document without "type" leaves shipping_type
\* None and is refused as a CardResponse, whatever it carries under
\* "shipping_type" or "card_type". The type field of PaymentDetail and
\* RefundDetail is written under "type", and every other field of every
\* struct has its own name as its key.
C24_RenamedKeys ==
  /\ cty \in DOMAIN RenamedField =>
       LET n == RenamedField[cty]
       IN  /\ (val # Nothing /\ wire # Nothing) =>
                /\ n \notin Keys(wire)
                /\ val.fields[n] # None =>
                     "type" \in Keys(wire) /\ wire.members["type"].j = "string"
           /\ (val = Nothing /\ decoded # NoResult /\ wire.j = "object"
               /\ "type" \notin Keys(wire)) =>
                IF cty = "ShippingDetail"
                THEN decoded.ok => decoded.v.fields[n] = None
                ELSE ~decoded.ok
           /\ (val = Nothing /\ decoded # NoResult /\ decoded.ok
               /\ "type" \in Keys(wire) /\ wire.members["type"] # JNull) =>
                /\ decoded.v.fields[n].t = "Enum"
                /\ Serialize(decoded.v.fields[n]) = wire.members["type"]
  /\ (cty \in { "PaymentDetail", "RefundDetail" } /\ val # Nothing /\ wire # Nothing
      /\ val.fields["type"] # None) =>
       "type" \in Keys(wire) /\ wire.members["type"].j = "string"
  /\ cty \in StructNames =>
       \A n \in FieldNames(StructDecl(cty)) :
         FieldNamed(StructDecl(cty), n).key =
           IF cty \in DOMAIN RenamedField /\ n = RenamedField[cty] THEN "type" ELSE n

\* C24 witness: a ShippingDetail document carrying a shipping type under
\* the key "shipping_type" has been read with shipping_type None
C24_Witness ==
  /\ cty = "ShippingDetail" /\ val = Nothing /\ decoded # NoResult
  /\ Keys(wire) = { "shipping_type" }
  /\ wire.members["shipping_type"] = JString(<<"S","H","I","P","P","I","N","G">>)
  /\ decoded.ok /\ decoded.v.fields["shipping_type"] = None

\* C25: InvoicePayload and Invoice use the same key for every field they
\* share: every member that encoding an InvoicePayload writes is under a key
\* that Invoice declares, so that an Invoice document echoing those members
\* is read with the same primary recipients.
C25_SharedKeys ==
  (cty = "InvoicePayload" /\ val # Nothing /\ wire # Nothing) =>
    /\ Keys(wire) \subseteq DeclaredKeys(Invoice)
    /\ LET echo == JObject([ k \in Keys(wire) \cup Keys(RequiredDocument("Invoice")) |->
                      IF k \in Keys(wire) THEN wire.members[k]
                      ELSE RequiredDocument("Invoice").members[k] ])
           r == Deserialize("Invoice", echo)
       IN  r.ok /\ r.v.fields["primary_recipients"] = val.fields["primary_recipient"]

\* C25 witness: an InvoicePayload with a primary recipient has been written;
\* the recipients are under the key primary_recipient, which Invoice does
\* not declare, and an Invoice document echoing the members has no primary
\* recipients
C25_Witness ==
  /\ cty = "InvoicePayload" /\ val # Nothing /\ wire # Nothing
  /\ val.fields["primary_recipient"] # None
  /\ "primary_recipient" \in Keys(wire)
  /\ "primary_recipient" \notin DeclaredKeys(Invoice)
  /\ "primary_recipients" \in DeclaredKeys(Invoice)
  /\ Keys(wire) \ { "primary_recipient" } \subseteq DeclaredKeys(Invoice)
  /\ LET echo == JObject([ k \in Keys(wire) \cup Keys(RequiredDocument("Invoice")) |->
                    IF k \in Keys(wire) THEN wire.members[k]
                    ELSE RequiredDocument("Invoice").members[k] ])
         r == Deserialize("Invoice", echo)
     IN  r.ok /\ r.v.fields["primary_recipients"] = None

-----------------------------------------------------------------------------
(* Properties of the constructors.                                         *)

\* C26: PurchaseUnit::new(a) has the amount a and every other field None,
\* and is written with the key amount alone, the amount as a is written.
\* Amount::new(c, v) has currency c, value v and no breakdown, Amount::usd(v)
\* and Amount::eur(v) are Amount::new(USD, v) and Amount::new(EUR, v), and
\* each is written with the keys currency_code and value alone.
C26_ConstructorsSetOnlyGiven ==
  (val # Nothing /\ ctor # Nothing /\ nassign = 0) =>
    /\ cty = "PurchaseUnit" =>
         /\ val.fields["amount"] = ctor.amount
         /\ \A n \in FieldNames(PurchaseUnit) \ { "amount" } : val.fields[n] = None
         /\ wire # Nothing =>
              /\ Keys(wire) = { "amount" }
              /\ Keys(wire.members["amount"]) =
                   { "currency_code", "value" }
                   \cup (IF ctor.amount.fields["breakdown"] = None THEN { }
                         ELSE { "breakdown" })
    /\ cty \in { "OrdersAmount", "InvoiceAmount" } =>
         /\ val = StructOf(cty,
                    [ n \in { "currency_code", "value", "breakdown" } |->
                        CASE n = "currency_code" ->
                               IF ctor.fn = "orders::Amount::usd" THEN Extern("Currency", "USD")
                               ELSE IF ctor.fn = "orders::Amount::eur"
                               THEN Extern("Currency", "EUR")
                               ELSE ctor.currency
                          [] n = "value" -> Str(ctor.value)
                          [] n = "breakdown" -> None ])
         /\ ctor.fn = "orders::Amount::usd" =>
              val = OrdersAmountNew(Extern("Currency", "USD"), ctor.value)
         /\ ctor.fn = "orders::Amount::eur" =>
              val = OrdersAmountNew(Extern("Currency", "EUR"), ctor.value)
         /\ wire # Nothing => Keys(wire) = { "currency_code", "value" }

\* C26 witness: PurchaseUnit::new was given an amount in USD and the
\* purchase unit has been written with the key amount alone
C26_Witness ==
  /\ cty = "PurchaseUnit" /\ ctor # Nothing /\ nassign = 0
  /\ ctor.amount.fields["currency_code"] = Extern("Currency", "USD")
  /\ val.fields["amount"] = ctor.amount /\ val.fields["payments"] = None
  /\ wire # Nothing /\ Keys(wire) = { "amount" }

-----------------------------------------------------------------------------
(* Properties of the invoice builders.                                     *)

\* the fields without a default, by struct
InvoiceRequired ==
  [ ty \in { "Invoice", "InvoiceItem", "PaymentDetail", "RefundDetail" } |->
      CASE ty = "Invoice" -> { "id", "status", "detail", "amount" }
        [] ty = "InvoiceItem" -> { "name", "quantity", "unit_amount" }
        [] OTHER -> { "method" } ]

\* C27: build() on the Invoice builder returns Ok exactly when id, status,
\* detail and amount were set, on the invoice Item builder exactly when
\* name, quantity and unit_amount were, on the PaymentDetail and RefundDetail
\* builders exactly when method was; in the value returned every field that
\* was given holds what it was given and every other field is None.
C27_InvoiceBuilders ==
  (bty \in DOMAIN InvoiceRequired /\ built # NoResult) =>
    /\ built.ok <=> InvoiceRequired[bty] \subseteq FieldsSet
    /\ built.ok =>
         \A n \in DOMAIN lastSet :
           built.v.fields[n] = IF n \in FieldsSet THEN lastSet[n] ELSE None
    /\ ~built.ok =>
         built.err = "UninitializedField" /\ built.at \in InvoiceRequired[bty] \ FieldsSet

\* C27 witness: build() succeeded on an Invoice builder that was given id,
\* status, detail and amount and nothing else
C27_Witness ==
  /\ bty = "Invoice" /\ built # NoResult /\ built.ok
  /\ FieldsSet = { "id", "status", "detail", "amount" }
  /\ built.v.fields["primary_recipients"] = None

-----------------------------------------------------------------------------
(* Properties of build() on a builder that is used again.                  *)

\* the fields to which setter history h stored a value
SetIn(h) == { n \in DOMAIN h : h[n] # Unset }

\* C28: build() only reads the builder: the builder holds what the setter
\* calls stored, whatever build() calls were made. A build() on a builder
\* that holds what it held at an earlier build() returns what that one
\* returned. After a build() that reported a missing field, a build() made
\* once that field was set no longer reports it, succeeds when no other
\* field is missing, and returns every field set before the failure with
\* the value it then had unless a later setter call replaced it. A value
\* returned by an earlier build() holds what had been set when it was
\* built, whatever setter calls followed.
C28_BuildOnlyReads ==
  bty # "" =>
    /\ builder = lastSet
    /\ (held # Nothing /\ built # NoResult /\ held.from = lastSet) =>
         built = held.outcome
    /\ (held # Nothing /\ ~held.outcome.ok /\ built # NoResult
        /\ held.outcome.at \in FieldsSet) =>
         /\ ~built.ok => built.at # held.outcome.at
         /\ MustBeSet(StructDecl(bty)) \subseteq FieldsSet => built.ok
         /\ built.ok =>
              \A n \in SetIn(held.from) :
                lastSet[n] = held.from[n] => built.v.fields[n] = held.from[n]
    /\ (held # Nothing /\ held.outcome.ok) =>
         \A n \in SetIn(held.from) : held.outcome.v.fields[n] = held.from[n]

\* C28 witness: build() on an invoice Item builder reported unit_amount;
\* unit_amount was then set and build() succeeded with the name and the
\* quantity set before
C28_Witness ==
  /\ bty = "InvoiceItem" /\ held # Nothing
  /\ held.outcome = Err("UninitializedField", "unit_amount")
  /\ SetIn(held.from) = { "name", "quantity" }
  /\ built # NoResult /\ built.ok
  /\ built.v.fields["name"] = held.from["name"]
  /\ built.v.fields["quantity"] = held.from["quantity"]

\* an AddOrderTracking returned by build() is held while a later setter call
\* gave the builder another order id
C28_HeldWitness ==
  /\ bty = "AddOrderTracking" /\ held # Nothing /\ held.outcome.ok
  /\ lastSet["order_id"] # held.from["order_id"]
  /\ held.outcome.v.fields["order_id"] = held.from["order_id"]
=============================================================================
